---------------------------- MODULE Spec2Model ----------------------------
(***************************************************************************)
(* Epsilon: streaming GNSS spoofing / jamming monitors.                    *)
(*                                                                         *)
(* Every monitor object is a record; every method is an operator from the  *)
(* object (and its arguments) to the object after the call together with   *)
(* the returned value and the exception raised, if any.  Python's None is  *)
(* the empty tuple and a present value v is the one-element tuple <<v>>.    *)
(* A message is a record with every field; the set "has" holds the keys    *)
(* the Python dictionary actually contains.                                *)
(***************************************************************************)
EXTENDS Integers, Sequences, FiniteSets, TLC

VARIABLES mon, twin, out, twinOut, hist


vars == <<mon, twin, out, twinOut, hist>>

-----------------------------------------------------------------------------
(* Bounds of the model *)

\* rxTime ranges over 0..MaxTime
MaxTime == 2

\* raw decisions a filtered monitor takes between two resets
MaxHist == 3

\* entries a sample buffer holds
MaxSamples == 2

\* entries each sample buffer of a dual-antenna monitor holds
MaxDualSamples == 2

\* positions a position monitor folds into its average
MaxAccepted == 4

\* a directly driven TimedBuffer is given no more entries than this
MaxBufLen == 4

-----------------------------------------------------------------------------
(* Values *)

None == <<>>

Some(v) == <<v>>

\* float('inf') as a window length or a threshold
Infinity == <<>>

NoError == "none"

Abs(x) == IF x < 0 THEN 0 - x ELSE x

Min(a, b) == IF a < b THEN a ELSE b

RECURSIVE SumSeq(_)
SumSeq(s) == IF s = <<>> THEN 0 ELSE s[1] + SumSeq(Tail(s))

LastN(s, n) == SubSeq(s, Len(s) - n + 1, Len(s))

RECURSIVE GCD(_, _)
GCD(a, b) == IF b = 0 THEN a ELSE GCD(b, a % b)

(* A float is kept exact: the record [num, den, root] is num/den, or its     *)
(* square root when root is TRUE (a Euclidean norm).  den > 0, lowest terms. *)
Real(num, den, root) ==
    LET g == GCD(Abs(num), den)
    IN  IF num = 0 THEN [num |-> 0, den |-> 1, root |-> root]
        ELSE [num |-> num \div g, den |-> den \div g, root |-> root]

\* x > t, x < t, x <= t for a Real x and an integer t
RealGT(x, t) ==
    IF x.root THEN (t < 0 \/ x.num > t * t * x.den) ELSE x.num > t * x.den

RealLT(x, t) ==
    IF x.root THEN (t > 0 /\ x.num < t * t * x.den) ELSE x.num < t * x.den

RealLE(x, t) == ~RealGT(x, t)

-----------------------------------------------------------------------------
(* buffers.FIFORunningSum *)

FIFORunningSum(max_size) == [sum |-> 0, buffer |-> <<>>, maxlen |-> max_size]

FIFORunningSum_reset_keepsum(self) == [self EXCEPT !.buffer = <<>>]

FIFORunningSum_reset(self) == [self EXCEPT !.buffer = <<>>, !.sum = 0]

\* self._buffer[0] on an empty deque of maxlen 0
FIFORunningSum_append_raises(self) ==
    Len(self.buffer) = self.maxlen /\ self.buffer = <<>>

FIFORunningSum_append_nosub(self, val) ==
    LET full == Len(self.buffer) = self.maxlen
    IN  [self EXCEPT !.buffer = IF full THEN Append(Tail(self.buffer), val)
                                         ELSE Append(self.buffer, val),
                     !.sum = self.sum + val]

FIFORunningSum_append(self, val) ==
    LET full == Len(self.buffer) = self.maxlen
        sum1 == IF full THEN self.sum - self.buffer[1] ELSE self.sum
    IN  [self EXCEPT !.buffer = IF full THEN Append(Tail(self.buffer), val)
                                         ELSE Append(self.buffer, val),
                     !.sum = sum1 + val]

-----------------------------------------------------------------------------
(* buffers.FIRFilter                                                       *)
(* past_samples is the deque, leftmost (most recent) entry first.          *)

FIRFilter(coefficients) ==
    [filter_length |-> Len(coefficients),
     coefficients |-> coefficients,
     past_samples |-> <<>>,
     response |-> None]

is_initialized(self) == Len(self.past_samples) = self.filter_length

\* deque.appendleft on a deque of the given maxlen: a full deque drops its
\* rightmost entry, a deque of maxlen 0 stays empty
DequeAppendLeft(d, maxlen, x) ==
    IF maxlen = 0 THEN <<>>
    ELSE IF Len(d) = maxlen THEN <<x>> \o SubSeq(d, 1, maxlen - 1)
    ELSE <<x>> \o d

\* sum(element * coefficient for (element, coefficient) in zip(a, b))
ZipDot(a, b) == SumSeq([i \in 1..Min(Len(a), Len(b)) |-> a[i] * b[i]])

FIRFilter_response(self) ==
    IF is_initialized(self) THEN Some(ZipDot(self.past_samples, self.coefficients))
    ELSE None

FIRFilter_appendleft(self, sample) ==
    LET pushed == [self EXCEPT !.past_samples =
                       DequeAppendLeft(self.past_samples, self.filter_length, sample)]
    IN  [pushed EXCEPT !.response = FIRFilter_response(pushed)]

FIRFilter_reset(self) == [self EXCEPT !.past_samples = <<>>, !.response = None]

-----------------------------------------------------------------------------
(* buffers.TimedBuffer and buffers.TimedRunningSum                         *)
(* target_elapsed_time is Some(v) or Infinity.  A TimedRunningSum of       *)
(* 3-vectors (dim = 3) keeps its sum as a 3-vector; numpy broadcasts the   *)
(* initial scalar 0 the same way.                                          *)

Zero(dim) == IF dim = 0 THEN 0 ELSE [i \in 1..dim |-> 0]

Plus(dim, a, b) == IF dim = 0 THEN a + b ELSE [i \in 1..dim |-> a[i] + b[i]]

Minus(dim, a, b) == IF dim = 0 THEN a - b ELSE [i \in 1..dim |-> a[i] - b[i]]

TimedBuffer(target_elapsed_time, keep_one_sample_before) ==
    [cls |-> "TimedBuffer",
     time_buffer |-> <<>>,
     sample_buffer |-> <<>>,
     target_elapsed_time |-> target_elapsed_time,
     keep_one |-> keep_one_sample_before]

TimedRunningSum(target_elapsed_time, dim) ==
    [cls |-> "TimedRunningSum",
     time_buffer |-> <<>>,
     sample_buffer |-> <<>>,
     target_elapsed_time |-> target_elapsed_time,
     keep_one |-> TRUE,
     dim |-> dim,
     sum |-> Zero(dim)]

BufLen(self) == Len(self.time_buffer)

newest_time(self) ==
    IF BufLen(self) = 0 THEN 0 ELSE self.time_buffer[BufLen(self)]

oldest_time(self) ==
    IF BufLen(self) = 0 THEN 0 ELSE self.time_buffer[1]

elapsed_time(self) ==
    IF BufLen(self) < 2 THEN 0
    ELSE self.time_buffer[BufLen(self)] - self.time_buffer[1]

oldest_sample(self) ==
    IF BufLen(self) = 0 THEN None ELSE Some(self.sample_buffer[1])

newest_sample(self) ==
    IF BufLen(self) = 0 THEN None ELSE Some(self.sample_buffer[BufLen(self)])

\* popleft of a non-empty buffer; TimedRunningSum first subtracts the oldest sample
TimedBuffer_popleft(self) ==
    [self EXCEPT !.time_buffer = Tail(self.time_buffer),
                 !.sample_buffer = Tail(self.sample_buffer)]

TimedRunningSum_popleft_nosub(self) == TimedBuffer_popleft(self)

TimedRunningSum_popleft(self) ==
    TimedBuffer_popleft([self EXCEPT !.sum = Minus(self.dim, self.sum, self.sample_buffer[1])])

popleft(self) ==
    IF self.cls = "TimedRunningSum" THEN TimedRunningSum_popleft(self)
    ELSE TimedBuffer_popleft(self)

\* the exception popleft raises on an empty buffer
popleft_error(self) ==
    IF self.time_buffer # <<>> THEN NoError
    ELSE IF self.cls = "TimedRunningSum" THEN "TypeError"
    ELSE "IndexError"

RECURSIVE PopN(_, _)
PopN(self, n) == IF n <= 0 THEN self ELSE PopN(popleft(self), n - 1)

\* the loop of remove_old_samples: leading entries older than target_time
RECURSIVE NumStale(_, _, _)
NumStale(times, newest, target) ==
    IF times = <<>> THEN 0
    ELSE IF target = Infinity \/ times[1] >= newest - target[1] THEN 0
    ELSE 1 + NumStale(Tail(times), newest, target)

remove_old_samples_no_grace(self, keep_one_before) ==
    IF BufLen(self) < 1 THEN self
    ELSE PopN(self, NumStale(self.time_buffer, self.time_buffer[BufLen(self)],
                             self.target_elapsed_time))

remove_old_samples(self, keep_one_before) ==
    IF BufLen(self) < 1 THEN self
    ELSE LET stale == NumStale(self.time_buffer, self.time_buffer[BufLen(self)],
                               self.target_elapsed_time)
             num_to_pop == IF keep_one_before THEN stale - 1 ELSE stale
         IN  PopN(self, num_to_pop)

\* the setter raises ValueError on a negative value
set_target_elapsed_time_error(val) ==
    IF val # Infinity /\ val[1] < 0 THEN "ValueError" ELSE NoError

set_target_elapsed_time(self, val) ==
    remove_old_samples([self EXCEPT !.target_elapsed_time = val], TRUE)

TimedBuffer_append_error_inclusive(self, time) ==
    IF time <= newest_time(self) THEN "ValueError" ELSE NoError

TimedBuffer_append_error(self, time) ==
    IF time < newest_time(self) THEN "ValueError" ELSE NoError

TimedBuffer_append(self, time, sample) ==
    remove_old_samples([self EXCEPT !.time_buffer = Append(self.time_buffer, time),
                                    !.sample_buffer = Append(self.sample_buffer, sample)],
                       TRUE)

TimedRunningSum_append(self, time, sample) ==
    LET b == TimedBuffer_append(self, time, sample)
    IN  [b EXCEPT !.sum = Plus(self.dim, b.sum, sample)]

\* append on the class of self: the buffer after the call and the exception
append(self, time, sample) ==
    IF TimedBuffer_append_error(self, time) # NoError
    THEN [buf |-> self, err |-> TimedBuffer_append_error(self, time)]
    ELSE IF self.cls = "TimedRunningSum"
    THEN [buf |-> TimedRunningSum_append(self, time, sample), err |-> NoError]
    ELSE [buf |-> TimedBuffer_append(self, time, sample), err |-> NoError]

TimedBuffer_reset(self) ==
    [self EXCEPT !.time_buffer = <<>>, !.sample_buffer = <<>>]

TimedRunningSum_reset(self) ==
    [TimedBuffer_reset(self) EXCEPT !.sum = Zero(self.dim)]

-----------------------------------------------------------------------------
(* monitor.Monitor *)

Monitor(cls, receiver_id, monitor_timeout, threshold) ==
    [cls |-> cls,
     receiver_id |-> receiver_id,
     monitor_timeout |-> monitor_timeout,
     threshold |-> threshold,
     last_event_time |-> None,
     status |-> [alarm |-> FALSE, threshold |-> threshold, metric |-> None]]

Monitor_compare_metric_inclusive(self, metric) == ~RealLT(metric, self.threshold)

Monitor_compare_metric(self, metric) == RealGT(metric, self.threshold)

Monitor_verify_message_any_order(self, message) ==
    IF ~({"rxTime", "validity", "receiver_id"} \subseteq message.has) THEN FALSE
    ELSE IF ~message.validity THEN FALSE
    ELSE IF message.receiver_id # self.receiver_id THEN FALSE
    ELSE TRUE

Monitor_verify_message(self, message) ==
    IF ~({"rxTime", "validity", "receiver_id"} \subseteq message.has) THEN FALSE
    ELSE IF ~message.validity THEN FALSE
    ELSE IF message.receiver_id # self.receiver_id THEN FALSE
    ELSE IF self.last_event_time # None
            /\ message.rxTime < self.last_event_time[1] THEN FALSE
    ELSE TRUE

Monitor_reset(self) ==
    [self EXCEPT !.last_event_time = None,
                 !.status.alarm = FALSE,
                 !.status.metric = None]

\* What update hands back: the object after the call (mon), the value
\* returned (ret), the exception raised (err), whether verify_message passed
\* (verified), whether the timeout guard called reset() (reset), whether
\* _calculate_metric returned None (nometric) and the value the base update
\* returned (raw).
Result(self, verified, didreset, nometric, raw, ret, err) ==
    [mon |-> self, verified |-> verified, reset |-> didreset, nometric |-> nometric,
     raw |-> raw, ret |-> ret, err |-> err]

TimeoutGuard_strict(self, message) ==
    /\ self.monitor_timeout # None
    /\ self.last_event_time # None
    /\ message.rxTime - self.last_event_time[1] > self.monitor_timeout[1]

TimeoutGuard(self, message) ==
    /\ self.monitor_timeout # None
    /\ self.last_event_time # None
    /\ message.rxTime - self.last_event_time[1] >= self.monitor_timeout[1]

NoMetricYet_clearing(self, fire) ==
    Result([self EXCEPT !.status.alarm = FALSE, !.status.metric = None],
           TRUE, fire, TRUE, None, None, NoError)

\* if metric is None: return None
NoMetricYet(self, fire) == Result(self, TRUE, fire, TRUE, None, None, NoError)

-----------------------------------------------------------------------------
(* filtered_monitor.FilteredMonitor *)

FilteredMonitor(cls, receiver_id, monitor_timeout, threshold, min_detections, sample_window) ==
    [cls |-> cls,
     receiver_id |-> receiver_id,
     monitor_timeout |-> monitor_timeout,
     threshold |-> threshold,
     last_event_time |-> None,
     status |-> [alarm |-> FALSE, threshold |-> threshold, metric |-> None,
                 spoofing_flag |-> FALSE],
     min_detections |-> min_detections,
     detections |-> FIFORunningSum(sample_window)]

\* reset() leaving the detection window as it is
FilteredMonitor_reset_keep_detections(self) ==
    [Monitor_reset(self) EXCEPT !.status.spoofing_flag = FALSE]

FilteredMonitor_reset(self) ==
    [Monitor_reset(self) EXCEPT !.detections = FIFORunningSum_reset(self.detections),
                                !.status.spoofing_flag = FALSE]

-----------------------------------------------------------------------------
(* stationary_velocity_monitor.StationaryVelocityMonitor *)

StationaryVelocityMonitor(receiver_id, monitor_timeout, min_detections, sample_window, threshold) ==
    FilteredMonitor("StationaryVelocityMonitor", receiver_id, monitor_timeout,
                    Abs(threshold), min_detections, sample_window)

StationaryVelocityMonitor_calculate_metric(self, message) ==
    IF "ecef_velocity" \notin message.has
    THEN [mon |-> self, metric |-> None, err |-> NoError]
    ELSE IF Len(message.ecef_velocity) # 3
    THEN [mon |-> self, metric |-> None, err |-> NoError]
    ELSE [mon |-> self,
          metric |-> Some(Real(SumSeq([i \in 1..3 |-> message.ecef_velocity[i] * message.ecef_velocity[i]]),
                               1, FALSE)),
          err |-> NoError]

-----------------------------------------------------------------------------
(* clock_rate_monitor.ClockRateMonitor *)

ClockRateMonitor(receiver_id, monitor_timeout, threshold, min_delta_t, max_delta_t) ==
    [cls |-> "ClockRateMonitor",
     receiver_id |-> receiver_id,
     monitor_timeout |-> monitor_timeout,
     threshold |-> threshold,
     last_event_time |-> None,
     status |-> [alarm |-> FALSE, threshold |-> threshold, metric |-> None],
     samples |-> TimedBuffer(Some(min_delta_t), TRUE),
     max_delta_t |-> max_delta_t]

ClockRateMonitor_reset(self) ==
    [Monitor_reset(self) EXCEPT !.samples = TimedBuffer_reset(self.samples)]

ClockRateMonitor_trim_never(self, samples) == samples

\* popping already at elapsed_time = max_delta_t
ClockRateMonitor_trim_inclusive(self, samples) ==
    IF elapsed_time(samples) >= self.max_delta_t THEN popleft(samples) ELSE samples

\* if self.samples.elapsed_time > self._max_delta_t: self.samples.popleft()
ClockRateMonitor_trim(self, samples) ==
    IF elapsed_time(samples) > self.max_delta_t THEN popleft(samples) ELSE samples

ClockRateMonitor_calculate_metric(self, message) ==
    IF "clock_rate" \notin message.has
    THEN [mon |-> self, metric |-> None, err |-> NoError]
    ELSE IF TimedBuffer_append_error(self.samples, message.rxTime) # NoError
    THEN [mon |-> self, metric |-> None,
          err |-> TimedBuffer_append_error(self.samples, message.rxTime)]
    ELSE
      LET s1 == TimedBuffer_append(self.samples, message.rxTime, message.clock_rate)
          s2 == ClockRateMonitor_trim(self, s1)
          m2 == [self EXCEPT !.samples = s2]
      IN  IF elapsed_time(s2) < s2.target_elapsed_time[1]
          THEN [mon |-> m2, metric |-> None, err |-> NoError]
          ELSE IF elapsed_time(s2) = 0
          THEN [mon |-> m2, metric |-> None, err |-> "ZeroDivisionError"]
          ELSE [mon |-> m2,
                metric |-> Some(Real(Abs(newest_sample(s2)[1] - oldest_sample(s2)[1]),
                                     elapsed_time(s2), FALSE)),
                err |-> NoError]

-----------------------------------------------------------------------------
(* ccd_monitor.CCDMonitor                                                  *)
(* rate_integral holds the trapezoid terms in half units, twice the Python *)
(* value (clock_rate + last_rate) / 2 * dt, so that they stay integers;    *)
(* the metric |bias.sum - rate.sum| is formed with the bias sum doubled    *)
(* and halved again as a Real.                                             *)

CCDMonitor(receiver_id, monitor_timeout, threshold, min_delta_t, max_delta_t) ==
    [cls |-> "CCDMonitor",
     receiver_id |-> receiver_id,
     monitor_timeout |-> monitor_timeout,
     threshold |-> threshold,
     last_event_time |-> None,
     status |-> [alarm |-> FALSE, threshold |-> threshold, metric |-> None],
     bias_samples |-> TimedRunningSum(Some(min_delta_t), 0),
     rate_integral |-> TimedRunningSum(Some(min_delta_t), 0),
     last_rate |-> None,
     last_time |-> None,
     max_delta_t |-> max_delta_t]

CCDMonitor_reset(self) ==
    [Monitor_reset(self) EXCEPT !.rate_integral = TimedRunningSum_reset(self.rate_integral),
                                !.bias_samples = TimedRunningSum_reset(self.bias_samples),
                                !.last_rate = None,
                                !.last_time = None]

\* the eviction loop popping bias_samples only
RECURSIVE CCDMonitor_evict_bias_only(_)
CCDMonitor_evict_bias_only(self) ==
    IF elapsed_time(self.bias_samples) > self.max_delta_t
    THEN CCDMonitor_evict_bias_only([self EXCEPT !.bias_samples = popleft(self.bias_samples)])
    ELSE self

\* while self.bias_samples.elapsed_time > self._max_delta_t: pop both
RECURSIVE CCDMonitor_evict(_)
CCDMonitor_evict(self) ==
    IF elapsed_time(self.bias_samples) > self.max_delta_t
    THEN CCDMonitor_evict([self EXCEPT !.bias_samples = popleft(self.bias_samples),
                                       !.rate_integral = popleft(self.rate_integral)])
    ELSE self

\* the rectangle clock_rate * dt instead of the trapezoid
CCDMonitor_rate_term_rectangle(self, message) ==
    2 * message.clock_rate * (message.rxTime - self.last_time[1])

\* twice rate_term = (clock_rate + last_rate) / 2 * (time - last_time)
CCDMonitor_rate_term(self, message) ==
    (message.clock_rate + self.last_rate[1]) * (message.rxTime - self.last_time[1])

CCDMonitor_calculate_metric(self, message) ==
    IF "clock_rate" \notin message.has \/ "clock_bias" \notin message.has
    THEN [mon |-> self, metric |-> None, err |-> NoError]
    ELSE IF self.last_rate = None
    THEN [mon |-> [self EXCEPT !.last_time = Some(message.rxTime),
                               !.last_rate = Some(message.clock_rate)],
          metric |-> None, err |-> NoError]
    ELSE IF TimedBuffer_append_error(self.bias_samples, message.rxTime) # NoError
    THEN [mon |-> self, metric |-> None,
          err |-> TimedBuffer_append_error(self.bias_samples, message.rxTime)]
    ELSE
      LET b1 == TimedRunningSum_append(self.bias_samples, message.rxTime, message.clock_bias)
          rate_term2 == CCDMonitor_rate_term(self, message)
          m1 == [self EXCEPT !.bias_samples = b1]
      IN  IF TimedBuffer_append_error(self.rate_integral, message.rxTime) # NoError
          THEN [mon |-> m1, metric |-> None,
                err |-> TimedBuffer_append_error(self.rate_integral, message.rxTime)]
          ELSE
            LET r1 == TimedRunningSum_append(self.rate_integral, message.rxTime, rate_term2)
                m2 == CCDMonitor_evict([m1 EXCEPT !.rate_integral = r1,
                                                  !.last_rate = Some(message.clock_rate),
                                                  !.last_time = Some(message.rxTime)])
            IN  IF elapsed_time(m2.bias_samples) < m2.bias_samples.target_elapsed_time[1]
                THEN [mon |-> m2, metric |-> None, err |-> NoError]
                ELSE [mon |-> m2,
                      metric |-> Some(Real(Abs(2 * m2.bias_samples.sum - m2.rate_integral.sum),
                                           2, FALSE)),
                      err |-> NoError]

-----------------------------------------------------------------------------
(* stationary_position_monitor.StationaryPositionMonitor                   *)
(* The average is an exact rational 3-vector: num[i] / den.                *)

Vec(num, den) ==
    LET g == GCD(GCD(GCD(Abs(num[1]), Abs(num[2])), Abs(num[3])), den)
    IN  [num |-> [i \in 1..3 |-> num[i] \div g], den |-> den \div g]

StationaryPositionMonitor(receiver_id, monitor_timeout, min_detections, sample_window, rejection_threshold, spoofing_threshold, num_init_samples) ==
    [cls |-> "StationaryPositionMonitor",
     receiver_id |-> receiver_id,
     monitor_timeout |-> monitor_timeout,
     threshold |-> Abs(spoofing_threshold),
     last_event_time |-> None,
     status |-> [alarm |-> FALSE, threshold |-> Abs(spoofing_threshold), metric |-> None,
                 spoofing_flag |-> FALSE],
     min_detections |-> min_detections,
     detections |-> FIFORunningSum(sample_window),
     num_accepted |-> 0,
     average |-> None,
     num_init_samples |-> num_init_samples,
     rejection_threshold |-> Abs(rejection_threshold)]

update_average_nocount(self, measurement) ==
    LET a == self.average[1]
        n == self.num_accepted
    IN  [self EXCEPT !.average = Some(Vec([i \in 1..3 |-> a.num[i] * n + measurement[i] * a.den],
                                          a.den * (n + 1)))]

\* self.average + (measurement - self.average) / (self.num_accepted + 1.0)
update_average(self, measurement) ==
    LET a == self.average[1]
        n == self.num_accepted
    IN  [self EXCEPT !.average = Some(Vec([i \in 1..3 |-> a.num[i] * n + measurement[i] * a.den],
                                          a.den * (n + 1))),
                     !.num_accepted = n + 1]

\* np.linalg.norm(position - self.average)
shifted_position_magnitude(self, position) ==
    LET a == self.average[1]
    IN  Real(SumSeq([i \in 1..3 |-> (position[i] * a.den - a.num[i])
                                        * (position[i] * a.den - a.num[i])]),
             a.den * a.den, TRUE)

StillInitializing_inclusive(self) == self.num_accepted <= self.num_init_samples

\* if self.num_accepted < self._num_init_samples
StillInitializing(self) == self.num_accepted < self.num_init_samples

StationaryPositionMonitor_calculate_metric(self, message) ==
    IF "ecef_position" \notin message.has
    THEN [mon |-> self, metric |-> None, err |-> NoError]
    ELSE IF self.num_accepted = 0
    THEN [mon |-> [self EXCEPT !.average = Some(Vec(message.ecef_position, 1)),
                               !.num_accepted = 1],
          metric |-> None, err |-> NoError]
    ELSE IF StillInitializing(self)
    THEN [mon |-> update_average(self, message.ecef_position),
          metric |-> None, err |-> NoError]
    ELSE LET magnitude == shifted_position_magnitude(self, message.ecef_position)
         IN  [mon |-> IF RealLT(magnitude, self.rejection_threshold)
                      THEN update_average(self, message.ecef_position)
                      ELSE self,
              metric |-> Some(magnitude), err |-> NoError]

StationaryPositionMonitor_reset_keep(self) ==
    [FilteredMonitor_reset(self) EXCEPT !.average = Some(Vec(<<0, 0, 0>>, 1))]

StationaryPositionMonitor_reset(self) ==
    [FilteredMonitor_reset(self) EXCEPT !.average = Some(Vec(<<0, 0, 0>>, 1)),
                                        !.num_accepted = 0]

\* raises ValueError unless len(average) = 3 and num_accepted is a positive int
hot_start_monitor_error(average, num_accepted) ==
    IF Len(average) # 3 THEN "ValueError"
    ELSE IF num_accepted <= 0 THEN "ValueError"
    ELSE NoError

hot_start_monitor_average_only(self, average, num_accepted) ==
    [self EXCEPT !.average = Some(Vec(average, 1))]

hot_start_monitor(self, average, num_accepted) ==
    [self EXCEPT !.average = Some(Vec(average, 1)), !.num_accepted = num_accepted]

-----------------------------------------------------------------------------
(* A Python dict: the sequence of its [key, val] items in insertion order. *)

RECURSIVE DictIndex(_, _)
DictIndex(d, k) ==
    IF d = <<>> THEN 0
    ELSE IF d[Len(d)].key = k THEN Len(d)
    ELSE DictIndex(SubSeq(d, 1, Len(d) - 1), k)

DictHas(d, k) == DictIndex(d, k) # 0

DictGet(d, k) == d[DictIndex(d, k)].val

DictSet(d, k, v) ==
    IF DictHas(d, k) THEN [d EXCEPT ![DictIndex(d, k)].val = v]
    ELSE Append(d, [key |-> k, val |-> v])

\* "{!s}.{!s}".format(gnss_id, sv_id)
ChannelId(gnss_id, sv_id) == <<gnss_id, sv_id>>

-----------------------------------------------------------------------------
(* cn0_drop_monitor.CnoDropJammingMonitor *)

CnoDropJammingMonitor(receiver_id, threshold, time_window) ==
    [cls |-> "CnoDropJammingMonitor",
     receiver_id |-> receiver_id,
     monitor_timeout |-> None,
     threshold |-> threshold,
     last_event_time |-> None,
     status |-> [alarm |-> FALSE, threshold |-> threshold, metric |-> None],
     time_window |-> time_window,
     cnos |-> <<>>,
     drops |-> <<>>]

CnoDropJammingMonitor_reset(self) ==
    [Monitor_reset(self) EXCEPT !.cnos = <<>>, !.drops = <<>>]

\* for sv_data in message['svs']: ... self._cnos[channel_id].append(time, cno)
RECURSIVE CnoDrop_fold(_, _, _)
CnoDrop_fold(self, svs, time) ==
    IF svs = <<>> THEN [mon |-> self, err |-> NoError]
    ELSE
      LET sv_data == svs[1]
      IN  IF ~({"svid", "gnssId", "cno", "qualityInd"} \subseteq sv_data.has)
          THEN CnoDrop_fold(self, Tail(svs), time)
          ELSE IF sv_data.qualityInd < 4 \/ sv_data.cno <= 0
          THEN CnoDrop_fold(self, Tail(svs), time)
          ELSE
            LET channel_id == ChannelId(sv_data.gnssId, sv_data.svid)
                cnos1 == IF DictHas(self.cnos, channel_id) THEN self.cnos
                         ELSE DictSet(self.cnos, channel_id,
                                      TimedBuffer(Some(self.time_window), FALSE))
                data == DictGet(cnos1, channel_id)
            IN  IF TimedBuffer_append_error(data, time) # NoError
                THEN [mon |-> [self EXCEPT !.cnos = cnos1],
                      err |-> TimedBuffer_append_error(data, time)]
                ELSE CnoDrop_fold(
                         [self EXCEPT !.cnos = DictSet(cnos1, channel_id,
                                                       TimedBuffer_append(data, time, sv_data.cno))],
                         Tail(svs), time)

DropTooSmall_strict(self, drop) == drop < self.threshold

\* if self._drops[channel] <= self._threshold: alarm = False
DropTooSmall(self, drop) == drop <= self.threshold

\* for channel, data in self._cnos.items(): the item at index i onwards;
\* acc is the pair (alarm, any_examined)
RECURSIVE CnoDrop_examine(_, _, _)
CnoDrop_examine(self, i, acc) ==
    IF i > Len(self.cnos) THEN [mon |-> self, alarm |-> acc.alarm, any_examined |-> acc.any_examined]
    ELSE
      LET channel == self.cnos[i].key
          data == remove_old_samples(self.cnos[i].val, TRUE)
          s1 == [self EXCEPT !.cnos[i].val = data]
      IN  IF BufLen(data) < 2
          THEN CnoDrop_examine([s1 EXCEPT !.drops = DictSet(self.drops, channel, None)],
                               i + 1, acc)
          ELSE
            LET drop == 0 - (newest_sample(data)[1] - oldest_sample(data)[1])
            IN  CnoDrop_examine([s1 EXCEPT !.drops = DictSet(self.drops, channel, Some(drop))],
                                i + 1,
                                [alarm |-> IF DropTooSmall(self, drop) THEN FALSE ELSE acc.alarm,
                                 any_examined |-> TRUE])

CnoDropJammingMonitor_calculate_metric(self, message) ==
    IF "svs" \notin message.has
    THEN [mon |-> self, metric |-> None, err |-> NoError]
    ELSE
      LET f == CnoDrop_fold(self, message.svs, message.rxTime)
      IN  IF f.err # NoError THEN [mon |-> f.mon, metric |-> None, err |-> f.err]
          ELSE
            LET e == CnoDrop_examine(f.mon, 1, [alarm |-> TRUE, any_examined |-> FALSE])
            IN  [mon |-> e.mon,
                 metric |-> IF ~e.any_examined THEN None ELSE Some(e.alarm),
                 err |-> NoError]

CnoDropJammingMonitor_compare_metric(self, metric) == metric

-----------------------------------------------------------------------------
(* cn0_threshold_monitor.CnoThresholdJammingMonitor                        *)
(* A stored (time, cno) tuple is the record [time, cno] inside Some.       *)

CnoThresholdJammingMonitor(receiver_id, threshold, time_window) ==
    [cls |-> "CnoThresholdJammingMonitor",
     receiver_id |-> receiver_id,
     monitor_timeout |-> None,
     threshold |-> threshold,
     last_event_time |-> None,
     status |-> [alarm |-> FALSE, threshold |-> threshold, metric |-> None],
     time_window |-> time_window,
     cnos |-> <<>>]

CnoThresholdJammingMonitor_reset(self) ==
    [Monitor_reset(self) EXCEPT !.cnos = <<>>]

\* for sv_data in message['svs']: ... self._cnos[channel_id] = (time, cno)
\* A missing key is logged but not skipped, so the subscript raises KeyError;
\* the branch for an invalid entry calls self.logger.deubg, which no Logger has.
RECURSIVE CnoThreshold_fold(_, _, _)
CnoThreshold_fold(self, svs, time) ==
    IF svs = <<>> THEN [mon |-> self, err |-> NoError]
    ELSE
      LET sv_data == svs[1]
      IN  IF ~({"svid", "gnssId", "cno", "qualityInd"} \subseteq sv_data.has)
          THEN [mon |-> self, err |-> "KeyError"]
          ELSE IF sv_data.qualityInd < 4 \/ sv_data.cno <= 0
          THEN [mon |-> self, err |-> "AttributeError"]
          ELSE
            LET channel_id == ChannelId(sv_data.gnssId, sv_data.svid)
            IN  IF DictHas(self.cnos, channel_id)
                   /\ DictGet(self.cnos, channel_id) # None
                   /\ time < DictGet(self.cnos, channel_id)[1].time
                THEN CnoThreshold_fold(self, Tail(svs), time)
                ELSE CnoThreshold_fold(
                         [self EXCEPT !.cnos = DictSet(self.cnos, channel_id,
                                                       Some([time |-> time, cno |-> sv_data.cno]))],
                         Tail(svs), time)

\* for key, (last_time, cno) in self._cnos.items(): the item at index i onwards;
\* unpacking a value that is None raises TypeError
RECURSIVE CnoThreshold_scan(_, _, _, _)
CnoThreshold_scan(self, i, time, max_cno) ==
    IF i > Len(self.cnos) THEN [mon |-> self, max_cno |-> max_cno, err |-> NoError]
    ELSE IF self.cnos[i].val = None
    THEN [mon |-> self, max_cno |-> max_cno, err |-> "TypeError"]
    ELSE
      LET last_time == self.cnos[i].val[1].time
          cno == self.cnos[i].val[1].cno
      IN  IF time - last_time > self.time_window
          THEN CnoThreshold_scan([self EXCEPT !.cnos[i].val = None], i + 1, time, max_cno)
          ELSE IF max_cno = None \/ cno > max_cno[1]
          THEN CnoThreshold_scan(self, i + 1, time, Some(cno))
          ELSE CnoThreshold_scan(self, i + 1, time, max_cno)

CnoThresholdJammingMonitor_calculate_metric(self, message) ==
    IF "svs" \notin message.has
    THEN [mon |-> self, metric |-> None, err |-> NoError]
    ELSE
      LET f == CnoThreshold_fold(self, message.svs, message.rxTime)
      IN  IF f.err # NoError THEN [mon |-> f.mon, metric |-> None, err |-> f.err]
          ELSE
            LET e == CnoThreshold_scan(f.mon, 1, message.rxTime, None)
            IN  [mon |-> e.mon,
                 metric |-> IF e.max_cno = None THEN None
                            ELSE Some(Real(e.max_cno[1], 1, FALSE)),
                 err |-> e.err]

CnoThresholdJammingMonitor_compare_metric(self, metric) == RealLT(metric, self.threshold)

-----------------------------------------------------------------------------
(* dual_antenna_distance_monitor.StubPosMonitor *)

StubPosMonitor(receiver_id, monitor_timeout, time_window) ==
    [cls |-> "StubPosMonitor",
     receiver_id |-> receiver_id,
     monitor_timeout |-> monitor_timeout,
     threshold |-> Infinity,
     last_event_time |-> None,
     status |-> [alarm |-> FALSE, threshold |-> Infinity, metric |-> None],
     samples |-> TimedRunningSum(Some(time_window), 3)]

\* without the popleft after the append
StubPosMonitor_calculate_metric_grace(self, message) ==
    IF "ecef_position" \notin message.has
    THEN [mon |-> self, metric |-> None, err |-> NoError]
    ELSE IF TimedBuffer_append_error(self.samples, message.rxTime) # NoError
    THEN [mon |-> self, metric |-> None,
          err |-> TimedBuffer_append_error(self.samples, message.rxTime)]
    ELSE [mon |-> [self EXCEPT !.samples = TimedRunningSum_append(self.samples, message.rxTime,
                                                                  message.ecef_position)],
          metric |-> Some(message.ecef_position), err |-> NoError]

StubPosMonitor_calculate_metric(self, message) ==
    IF "ecef_position" \notin message.has
    THEN [mon |-> self, metric |-> None, err |-> NoError]
    ELSE IF TimedBuffer_append_error(self.samples, message.rxTime) # NoError
    THEN [mon |-> self, metric |-> None,
          err |-> TimedBuffer_append_error(self.samples, message.rxTime)]
    ELSE
      LET s1 == TimedRunningSum_append(self.samples, message.rxTime, message.ecef_position)
          s2 == IF elapsed_time(s1) > s1.target_elapsed_time[1] THEN popleft(s1) ELSE s1
      IN  [mon |-> [self EXCEPT !.samples = s2],
           metric |-> Some(message.ecef_position), err |-> NoError]

\* position > float('inf'), element by element
StubPosMonitor_compare_metric(self, metric) == [i \in 1..3 |-> FALSE]

\* without clearing the samples
StubPosMonitor_reset_keep_samples(self) == Monitor_reset(self)

StubPosMonitor_reset(self) ==
    [Monitor_reset(self) EXCEPT !.samples = TimedRunningSum_reset(self.samples)]

\* a StubPosMonitor inherits update and verify_message from Monitor
RECURSIVE Monitor_update(_, _)

-----------------------------------------------------------------------------
(* dual_antenna_distance_monitor.DualAntennaDistanceMonitor                *)
(* _last_update is -inf at construction, None after reset, else a time.    *)

NegInf == [k |-> "neginf", v |-> 0]

NoneTime == [k |-> "none", v |-> 0]

NumTime(t) == [k |-> "num", v |-> t]

DualAntennaDistanceMonitor(receiver_id_1, receiver_id_2, monitor_timeout, minimum_samples, threshold, time_range) ==
    [cls |-> "DualAntennaDistanceMonitor",
     receiver_id |-> receiver_id_1,
     monitor_timeout |-> monitor_timeout,
     threshold |-> threshold,
     last_event_time |-> None,
     status |-> [alarm |-> FALSE, threshold |-> threshold, metric |-> None],
     rx1 |-> StubPosMonitor(receiver_id_1, monitor_timeout, time_range),
     rx2 |-> StubPosMonitor(receiver_id_2, monitor_timeout, time_range),
     min_samples |-> minimum_samples,
     last_update |-> NegInf]

DualAntennaDistanceMonitor_reset(self) ==
    [Monitor_reset(self) EXCEPT !.last_update = NoneTime,
                                !.rx1 = StubPosMonitor_reset(self.rx1),
                                !.rx2 = StubPosMonitor_reset(self.rx2)]

DualAntennaDistanceMonitor_verify_message_per_receiver(self, message) ==
    IF ~({"rxTime", "validity", "receiver_id"} \subseteq message.has) THEN FALSE
    ELSE IF ~message.validity THEN FALSE
    ELSE IF message.receiver_id \notin {self.rx1.receiver_id, self.rx2.receiver_id} THEN FALSE
    ELSE Monitor_verify_message(IF message.receiver_id = self.rx1.receiver_id
                                THEN self.rx1 ELSE self.rx2, message)

DualAntennaDistanceMonitor_verify_message(self, message) ==
    IF ~({"rxTime", "validity", "receiver_id"} \subseteq message.has) THEN FALSE
    ELSE IF ~message.validity THEN FALSE
    ELSE IF message.receiver_id \notin {self.rx1.receiver_id, self.rx2.receiver_id} THEN FALSE
    ELSE IF self.last_event_time # None
            /\ message.rxTime < self.last_event_time[1] THEN FALSE
    ELSE TRUE

\* math.sqrt(sum((avg_rx1 - avg_rx2) ** 2)) with avg = samples.sum / len(samples)
DualDistance(s1, s2) ==
    LET n1 == BufLen(s1)
        n2 == BufLen(s2)
    IN  Real(SumSeq([i \in 1..3 |-> (s1.sum[i] * n2 - s2.sum[i] * n1)
                                        * (s1.sum[i] * n2 - s2.sum[i] * n1)]),
             (n1 * n2) * (n1 * n2), TRUE)

DualAntennaDistanceMonitor_calculate_metric(self, message) ==
    LET first == message.receiver_id # self.rx2.receiver_id
        sub == Monitor_update(IF first THEN self.rx1 ELSE self.rx2, message)
        m1 == IF first THEN [self EXCEPT !.rx1 = sub.mon] ELSE [self EXCEPT !.rx2 = sub.mon]
    IN  IF sub.err # NoError THEN [mon |-> m1, metric |-> None, err |-> sub.err]
        ELSE IF m1.last_update.k = "none"
        THEN [mon |-> m1, metric |-> None, err |-> "TypeError"]
        ELSE IF ~(m1.last_update.k = "neginf"
                  \/ (newest_time(m1.rx1.samples) > m1.last_update.v
                      /\ newest_time(m1.rx2.samples) > m1.last_update.v))
        THEN [mon |-> m1, metric |-> None, err |-> NoError]
        ELSE IF BufLen(m1.rx1.samples) < m1.min_samples
                \/ BufLen(m1.rx2.samples) < m1.min_samples
        THEN [mon |-> m1, metric |-> None, err |-> NoError]
        ELSE IF BufLen(m1.rx1.samples) = 0 \/ BufLen(m1.rx2.samples) = 0
        THEN [mon |-> [m1 EXCEPT !.last_update = NumTime(message.rxTime)],
              metric |-> None, err |-> "ZeroDivisionError"]
        ELSE [mon |-> [m1 EXCEPT !.last_update = NumTime(message.rxTime)],
              metric |-> Some(DualDistance(m1.rx1.samples, m1.rx2.samples)),
              err |-> NoError]

DualAntennaDistanceMonitor_compare_metric(self, metric) == RealLE(metric, self.threshold)

-----------------------------------------------------------------------------
(* Method lookup by class *)

IsFiltered(self) ==
    self.cls \in {"StationaryVelocityMonitor", "StationaryPositionMonitor"}

calculate_metric(self, message) ==
    CASE self.cls = "StationaryVelocityMonitor" ->
             StationaryVelocityMonitor_calculate_metric(self, message)
      [] self.cls = "StationaryPositionMonitor" ->
             StationaryPositionMonitor_calculate_metric(self, message)
      [] self.cls = "ClockRateMonitor" -> ClockRateMonitor_calculate_metric(self, message)
      [] self.cls = "CCDMonitor" -> CCDMonitor_calculate_metric(self, message)
      [] self.cls = "CnoDropJammingMonitor" ->
             CnoDropJammingMonitor_calculate_metric(self, message)
      [] self.cls = "CnoThresholdJammingMonitor" ->
             CnoThresholdJammingMonitor_calculate_metric(self, message)
      [] self.cls = "DualAntennaDistanceMonitor" ->
             DualAntennaDistanceMonitor_calculate_metric(self, message)
      [] self.cls = "StubPosMonitor" -> StubPosMonitor_calculate_metric(self, message)

compare_metric(self, metric) ==
    CASE self.cls = "CnoDropJammingMonitor" -> CnoDropJammingMonitor_compare_metric(self, metric)
      [] self.cls = "CnoThresholdJammingMonitor" ->
             CnoThresholdJammingMonitor_compare_metric(self, metric)
      [] self.cls = "DualAntennaDistanceMonitor" ->
             DualAntennaDistanceMonitor_compare_metric(self, metric)
      [] self.cls = "StubPosMonitor" -> StubPosMonitor_compare_metric(self, metric)
      [] OTHER -> Monitor_compare_metric(self, metric)

verify_message(self, message) ==
    IF self.cls = "DualAntennaDistanceMonitor"
    THEN DualAntennaDistanceMonitor_verify_message(self, message)
    ELSE Monitor_verify_message(self, message)

reset(self) ==
    CASE self.cls = "StationaryVelocityMonitor" -> FilteredMonitor_reset(self)
      [] self.cls = "StationaryPositionMonitor" -> StationaryPositionMonitor_reset(self)
      [] self.cls = "ClockRateMonitor" -> ClockRateMonitor_reset(self)
      [] self.cls = "CCDMonitor" -> CCDMonitor_reset(self)
      [] self.cls = "CnoDropJammingMonitor" -> CnoDropJammingMonitor_reset(self)
      [] self.cls = "CnoThresholdJammingMonitor" -> CnoThresholdJammingMonitor_reset(self)
      [] self.cls = "DualAntennaDistanceMonitor" -> DualAntennaDistanceMonitor_reset(self)
      [] self.cls = "StubPosMonitor" -> StubPosMonitor_reset(self)

-----------------------------------------------------------------------------
(* Monitor.update and FilteredMonitor.update on the class of self         *)

\* last_event_time kept as it was
Monitor_update_start_keep_time(self, message, fire) == IF fire THEN reset(self) ELSE self

\* the monitor after the timeout guard and the line self._last_event_time = rxTime
Monitor_update_start(self, message, fire) ==
    [(IF fire THEN reset(self) ELSE self) EXCEPT !.last_event_time = Some(message.rxTime)]

\* the rest of Monitor.update once _calculate_metric has given c
Monitor_update_finish(c, fire) ==
    IF c.err # NoError
    THEN Result(c.mon, TRUE, fire, FALSE, None, None, c.err)
    ELSE IF c.metric = None
    THEN NoMetricYet(c.mon, fire)
    ELSE
      LET alarm == compare_metric(c.mon, c.metric[1])
      IN  Result([c.mon EXCEPT !.status.metric = c.metric, !.status.alarm = alarm],
                 TRUE, fire, FALSE, Some(alarm), Some(alarm), NoError)

Monitor_update(self, message) ==
    IF ~verify_message(self, message)
    THEN Result(self, FALSE, FALSE, FALSE, None, None, NoError)
    ELSE Monitor_update_finish(
             calculate_metric(
                 Monitor_update_start(self, message, TimeoutGuard(self, message)), message),
             TimeoutGuard(self, message))

\* FilteredMonitor.update after super().update(message) has given b
FilteredMonitor_update_filter(b) ==
    IF b.err # NoError \/ b.ret = None THEN b
    ELSE
      LET sample == b.ret[1]
          m1 == [b.mon EXCEPT !.status.spoofing_flag = sample]
      IN  IF FIFORunningSum_append_raises(m1.detections)
          THEN [b EXCEPT !.mon = m1, !.ret = None, !.err = "IndexError"]
          ELSE
            LET d == FIFORunningSum_append(m1.detections, IF sample THEN 1 ELSE 0)
                alarm == d.sum >= m1.min_detections
            IN  [b EXCEPT !.mon = [m1 EXCEPT !.detections = d, !.status.alarm = alarm],
                          !.ret = Some(alarm)]

FilteredMonitor_update(self, message) ==
    FilteredMonitor_update_filter(Monitor_update(self, message))

update(self, message) ==
    IF IsFiltered(self) THEN FilteredMonitor_update(self, message)
    ELSE Monitor_update(self, message)

-----------------------------------------------------------------------------
(* Construction and the tunables' setters.  A setter and a constructor     *)
(* hand back the object after the call (mon; None when __init__ raised)    *)
(* and the exception raised (err).  has_id_str tells whether self._id_str  *)
(* is assigned yet: Monitor.__init__ calls the threshold setter (line 53)  *)
(* before it assigns _id_str (line 55).  A threshold is a number here, so  *)
(* the base setter's test for None never fires.                            *)

Assigned(self) == [mon |-> self, err |-> NoError]

Raised(self, err) == [mon |-> self, err |-> err]

Monitor_set_threshold(self, has_id_str, threshold) ==
    Assigned([self EXCEPT !.threshold = threshold, !.status.threshold = threshold])

\* the warning's arguments read self._id_str when threshold < 0
StationaryVelocityMonitor_set_threshold(self, has_id_str, threshold) ==
    IF threshold < 0 /\ ~has_id_str THEN Raised(self, "AttributeError")
    ELSE Assigned([self EXCEPT !.threshold = Abs(threshold),
                               !.status.threshold = Abs(threshold)])

StationaryPositionMonitor_set_threshold(self, has_id_str, threshold) ==
    IF threshold < 0 /\ ~has_id_str THEN Raised(self, "AttributeError")
    ELSE Assigned([self EXCEPT !.threshold = Abs(threshold),
                               !.status.threshold = Abs(threshold)])

CCDMonitor_set_threshold(self, has_id_str, threshold) ==
    IF threshold <= 0 THEN Raised(self, "ValueError")
    ELSE Assigned([self EXCEPT !.threshold = threshold, !.status.threshold = threshold])

ClockRateMonitor_set_threshold_assign_first(self, has_id_str, threshold) ==
    Raised([self EXCEPT !.threshold = threshold, !.status.threshold = threshold],
           IF threshold <= 0 THEN "ValueError" ELSE NoError)

ClockRateMonitor_set_threshold(self, has_id_str, threshold) ==
    IF threshold <= 0 THEN Raised(self, "ValueError")
    ELSE Assigned([self EXCEPT !.threshold = threshold, !.status.threshold = threshold])

DualAntennaDistanceMonitor_set_threshold(self, has_id_str, val) ==
    IF val <= 0 THEN Raised(self, "ValueError")
    ELSE Assigned([self EXCEPT !.threshold = val, !.status.threshold = val])

set_threshold(self, has_id_str, threshold) ==
    CASE self.cls = "StationaryVelocityMonitor" ->
             StationaryVelocityMonitor_set_threshold(self, has_id_str, threshold)
      [] self.cls = "StationaryPositionMonitor" ->
             StationaryPositionMonitor_set_threshold(self, has_id_str, threshold)
      [] self.cls = "CCDMonitor" -> CCDMonitor_set_threshold(self, has_id_str, threshold)
      [] self.cls = "ClockRateMonitor" ->
             ClockRateMonitor_set_threshold(self, has_id_str, threshold)
      [] self.cls = "DualAntennaDistanceMonitor" ->
             DualAntennaDistanceMonitor_set_threshold(self, has_id_str, threshold)
      [] OTHER -> Monitor_set_threshold(self, has_id_str, threshold)

\* CCDMonitor.min_delta_t and ClockRateMonitor.min_delta_t setters
set_min_delta_t(self, min_delta_t) ==
    IF min_delta_t <= 0 THEN Raised(self, "ValueError")
    ELSE IF self.cls = "CCDMonitor"
    THEN Assigned([self EXCEPT
             !.bias_samples = set_target_elapsed_time(self.bias_samples, Some(min_delta_t)),
             !.rate_integral = set_target_elapsed_time(self.rate_integral, Some(min_delta_t))])
    ELSE Assigned([self EXCEPT
             !.samples = set_target_elapsed_time(self.samples, Some(min_delta_t))])

\* CCDMonitor.max_delta_t and ClockRateMonitor.max_delta_t setters
set_max_delta_t_error(max_delta_t) == IF max_delta_t <= 0 THEN "ValueError" ELSE NoError

set_max_delta_t(self, max_delta_t) ==
    IF set_max_delta_t_error(max_delta_t) # NoError
    THEN Raised(self, set_max_delta_t_error(max_delta_t))
    ELSE Assigned([self EXCEPT !.max_delta_t = max_delta_t])

\* CnoDropJammingMonitor.time_window and CnoThresholdJammingMonitor.time_window setters
set_time_window_error(val) == IF val < 0 THEN "ValueError" ELSE NoError

set_time_window(self, val) ==
    IF set_time_window_error(val) # NoError THEN Raised(self, set_time_window_error(val))
    ELSE Assigned([self EXCEPT !.time_window = val])

\* DualAntennaDistanceMonitor.time_range setter
set_time_range(self, val) ==
    IF val <= 0 THEN Raised(self, "ValueError")
    ELSE Assigned([self EXCEPT
             !.rx1.samples = set_target_elapsed_time(self.rx1.samples, Some(val)),
             !.rx2.samples = set_target_elapsed_time(self.rx2.samples, Some(val))])

\* Monitor.__init__ assigns _threshold = 0 and the status, then hands the
\* argument to the class's threshold setter: the only statement that can raise
Monitor_init_error(cls, threshold) ==
    set_threshold(Monitor(cls, 0, None, 0), FALSE, threshold).err

FilteredMonitor_init_error_inclusive(cls, threshold, min_detections, sample_window) ==
    IF Monitor_init_error(cls, threshold) # NoError THEN Monitor_init_error(cls, threshold)
    ELSE IF sample_window <= min_detections THEN "ValueError"
    ELSE NoError

FilteredMonitor_init_error(cls, threshold, min_detections, sample_window) ==
    IF Monitor_init_error(cls, threshold) # NoError THEN Monitor_init_error(cls, threshold)
    ELSE IF sample_window < min_detections THEN "ValueError"
    ELSE NoError

StationaryPositionMonitor_init_error(c) ==
    IF FilteredMonitor_init_error("StationaryPositionMonitor", c.spoofing_threshold,
                                  c.min_detections, c.sample_window) # NoError
    THEN FilteredMonitor_init_error("StationaryPositionMonitor", c.spoofing_threshold,
                                    c.min_detections, c.sample_window)
    ELSE IF c.num_init_samples < 3 THEN "ValueError"
    ELSE NoError

\* CCDMonitor.__init__ and ClockRateMonitor.__init__ after super().__init__:
\* the min/max test, the buffers' target_elapsed_time setter, the
\* max_delta_t setter
DeltaT_init_error(min_delta_t, max_delta_t) ==
    IF min_delta_t > max_delta_t THEN "ValueError"
    ELSE IF set_target_elapsed_time_error(Some(min_delta_t)) # NoError
    THEN set_target_elapsed_time_error(Some(min_delta_t))
    ELSE set_max_delta_t_error(max_delta_t)

CCDMonitor_init_error(c) ==
    IF Monitor_init_error("CCDMonitor", c.threshold) # NoError
    THEN Monitor_init_error("CCDMonitor", c.threshold)
    ELSE DeltaT_init_error(c.min_delta_t, c.max_delta_t)

ClockRateMonitor_init_error(c) ==
    IF Monitor_init_error("ClockRateMonitor", c.threshold) # NoError
    THEN Monitor_init_error("ClockRateMonitor", c.threshold)
    ELSE DeltaT_init_error(c.min_delta_t, c.max_delta_t)

Cno_init_error(cls, c) ==
    IF Monitor_init_error(cls, c.threshold) # NoError THEN Monitor_init_error(cls, c.threshold)
    ELSE set_time_window_error(c.time_window)

\* the two StubPosMonitor build TimedRunningSum(target_elapsed_time=time_range)
DualAntennaDistanceMonitor_init_error(c) ==
    IF Monitor_init_error("DualAntennaDistanceMonitor", c.threshold) # NoError
    THEN Monitor_init_error("DualAntennaDistanceMonitor", c.threshold)
    ELSE set_target_elapsed_time_error(Some(c.time_range))

\* the exception cls(**configuration) raises
init_error(cls, c) ==
    CASE cls = "StationaryVelocityMonitor" ->
             FilteredMonitor_init_error(cls, c.threshold, c.min_detections, c.sample_window)
      [] cls = "StationaryPositionMonitor" -> StationaryPositionMonitor_init_error(c)
      [] cls = "ClockRateMonitor" -> ClockRateMonitor_init_error(c)
      [] cls = "CCDMonitor" -> CCDMonitor_init_error(c)
      [] cls \in {"CnoDropJammingMonitor", "CnoThresholdJammingMonitor"} -> Cno_init_error(cls, c)
      [] cls = "DualAntennaDistanceMonitor" -> DualAntennaDistanceMonitor_init_error(c)

\* the object cls(**configuration) builds when nothing is raised
init_object(cls, c) ==
    CASE cls = "StationaryVelocityMonitor" ->
             StationaryVelocityMonitor(c.receiver_id, c.monitor_timeout, c.min_detections,
                                       c.sample_window, c.threshold)
      [] cls = "StationaryPositionMonitor" ->
             StationaryPositionMonitor(c.receiver_id, c.monitor_timeout, c.min_detections,
                                       c.sample_window, c.rejection_threshold,
                                       c.spoofing_threshold, c.num_init_samples)
      [] cls = "ClockRateMonitor" ->
             ClockRateMonitor(c.receiver_id, c.monitor_timeout, c.threshold, c.min_delta_t,
                              c.max_delta_t)
      [] cls = "CCDMonitor" ->
             CCDMonitor(c.receiver_id, c.monitor_timeout, c.threshold, c.min_delta_t,
                        c.max_delta_t)
      [] cls = "CnoDropJammingMonitor" ->
             CnoDropJammingMonitor(c.receiver_id, c.threshold, c.time_window)
      [] cls = "CnoThresholdJammingMonitor" ->
             CnoThresholdJammingMonitor(c.receiver_id, c.threshold, c.time_window)
      [] cls = "DualAntennaDistanceMonitor" ->
             DualAntennaDistanceMonitor(c.receiver_id_1, c.receiver_id_2, c.monitor_timeout,
                                        c.minimum_samples, c.threshold, c.time_range)

construct(cls, c) ==
    IF init_error(cls, c) # NoError THEN Raised(None, init_error(cls, c))
    ELSE Assigned(Some(init_object(cls, c)))

-----------------------------------------------------------------------------
(* Messages *)

Times == 0..MaxTime

Header == {"rxTime", "validity", "receiver_id"}

BlankMessage ==
    [has |-> {}, rxTime |-> 0, validity |-> FALSE, receiver_id |-> 0,
     clock_rate |-> 0, clock_bias |-> 0, ecef_position |-> <<>>,
     ecef_velocity |-> <<>>, svs |-> <<>>]

GoodHeader(t, rid) ==
    [BlankMessage EXCEPT !.has = Header, !.rxTime = t, !.validity = TRUE,
                         !.receiver_id = rid]

\* messages every base verify_message refuses whatever the time
BadHeadersAt(t, rid, other) ==
    {[GoodHeader(t, rid) EXCEPT !.validity = FALSE],
     GoodHeader(t, other),
     [GoodHeader(t, rid) EXCEPT !.has = Header \ {"rxTime"}],
     [GoodHeader(t, rid) EXCEPT !.has = Header \ {"validity"}],
     [GoodHeader(t, rid) EXCEPT !.has = Header \ {"receiver_id"}]}

BadHeaders(rid, other) == BadHeadersAt(MaxTime, rid, other)

AllBadHeaders(rid, other) == UNION {BadHeadersAt(t, rid, other) : t \in Times}

VelocityMessages(rid) ==
    {GoodHeader(t, rid) : t \in Times}
    \cup {[GoodHeader(t, rid) EXCEPT !.has = Header \cup {"ecef_velocity"}, !.ecef_velocity = v] :
            t \in Times, v \in {<<0, 0, 0>>, <<1, 1, 0>>, <<2, 0, 0>>, <<1, 1>>}}

PositionsOnly(rid, positions) ==
    {[GoodHeader(t, rid) EXCEPT !.has = Header \cup {"ecef_position"}, !.ecef_position = v] :
        t \in Times, v \in positions}

PositionMessages(rid, positions) ==
    {GoodHeader(t, rid) : t \in Times} \cup PositionsOnly(rid, positions)

ClockRateMessages(rid) ==
    {GoodHeader(t, rid) : t \in Times}
    \cup {[GoodHeader(t, rid) EXCEPT !.has = Header \cup {"clock_rate"}, !.clock_rate = r] :
            t \in Times, r \in {0, 2}}

CCDMessages(rid) ==
    {[GoodHeader(t, rid) EXCEPT !.has = Header \cup {"clock_rate"}, !.clock_rate = 1] : t \in Times}
    \cup {[GoodHeader(t, rid) EXCEPT !.has = Header \cup {"clock_rate", "clock_bias"},
                                     !.clock_rate = r, !.clock_bias = b] :
            t \in Times, r \in {0, 1}, b \in {0, 1}}

SvFields == {"svid", "gnssId", "cno", "qualityInd"}

Sv(gnssId, svid, cno, qualityInd) ==
    [has |-> SvFields, gnssId |-> gnssId, svid |-> svid, cno |-> cno,
     qualityInd |-> qualityInd]

GoodSvs == {Sv(0, 1, 30, 5), Sv(0, 1, 10, 5), Sv(0, 2, 10, 5)}

\* low quality, non-positive cno, a missing field
BadSvs == {Sv(0, 1, 30, 3), Sv(0, 1, 0, 5), [Sv(0, 1, 30, 5) EXCEPT !.has = SvFields \ {"cno"}]}

SvLists ==
    {<<>>}
    \cup {<<e>> : e \in GoodSvs \cup BadSvs}
    \cup {<<e, Sv(0, 2, 10, 5)>> : e \in {Sv(0, 1, 30, 5), Sv(0, 1, 10, 5)} \cup BadSvs}

CnoMessages(rid) ==
    {GoodHeader(t, rid) : t \in Times}
    \cup {[GoodHeader(t, rid) EXCEPT !.has = Header \cup {"svs"}, !.svs = l] :
            t \in Times, l \in SvLists}

\* the ECEF positions a stationary receiver reports
Positions == {<<0, 0, 0>>, <<2, 2, 2>>, <<2, 0, 0>>}

MessagesFor(self) ==
    CASE self.cls = "StationaryVelocityMonitor" ->
             VelocityMessages(self.receiver_id) \cup BadHeaders(self.receiver_id, 2)
      [] self.cls = "StationaryPositionMonitor" ->
             PositionMessages(self.receiver_id, Positions)
                 \cup BadHeaders(self.receiver_id, 2)
      [] self.cls = "ClockRateMonitor" ->
             ClockRateMessages(self.receiver_id) \cup BadHeaders(self.receiver_id, 2)
      [] self.cls = "CCDMonitor" ->
             CCDMessages(self.receiver_id) \cup BadHeaders(self.receiver_id, 2)
      [] self.cls \in {"CnoDropJammingMonitor", "CnoThresholdJammingMonitor"} ->
             CnoMessages(self.receiver_id) \cup BadHeaders(self.receiver_id, 2)
      [] self.cls = "DualAntennaDistanceMonitor" ->
             PositionMessages(self.rx1.receiver_id, {<<0, 0, 0>>})
                 \cup PositionsOnly(self.rx2.receiver_id, {<<0, 0, 0>>, <<2, 0, 0>>})
                 \cup BadHeaders(self.rx1.receiver_id, 3)

-----------------------------------------------------------------------------
(* The monitors the model constructs *)

Timeouts == {None, Some(2)}

InitialMonitors ==
    {StationaryVelocityMonitor(1, T, c[1], c[2], 2) : T \in Timeouts, c \in {<<1, 2>>, <<2, 2>>}}
    \cup {StationaryPositionMonitor(1, T, 1, 2, 2, 3, 3) : T \in Timeouts}
    \cup {ClockRateMonitor(1, T, 1, c[1], c[2]) :
              T \in Timeouts, c \in {<<1, 2>>, <<1, 1>>, <<0, 1>>}}
    \cup {CCDMonitor(1, T, 1, 1, c) : T \in Timeouts, c \in {1, 2}}
    \cup {CnoDropJammingMonitor(1, 5, 1), CnoThresholdJammingMonitor(1, 30, 1)}
    \cup {DualAntennaDistanceMonitor(1, 2, T, 1, 1, 1) : T \in Timeouts}

\* a monitor constructed anew with the configuration self has now
Fresh(self) ==
    CASE self.cls = "StationaryVelocityMonitor" ->
             StationaryVelocityMonitor(self.receiver_id, self.monitor_timeout, self.min_detections,
                                       self.detections.maxlen, self.threshold)
      [] self.cls = "StationaryPositionMonitor" ->
             StationaryPositionMonitor(self.receiver_id, self.monitor_timeout, self.min_detections,
                                       self.detections.maxlen, self.rejection_threshold,
                                       self.threshold, self.num_init_samples)
      [] self.cls = "ClockRateMonitor" ->
             ClockRateMonitor(self.receiver_id, self.monitor_timeout, self.threshold,
                              self.samples.target_elapsed_time[1], self.max_delta_t)
      [] self.cls = "CCDMonitor" ->
             CCDMonitor(self.receiver_id, self.monitor_timeout, self.threshold,
                        self.bias_samples.target_elapsed_time[1], self.max_delta_t)
      [] self.cls = "CnoDropJammingMonitor" ->
             CnoDropJammingMonitor(self.receiver_id, self.threshold, self.time_window)
      [] self.cls = "CnoThresholdJammingMonitor" ->
             CnoThresholdJammingMonitor(self.receiver_id, self.threshold, self.time_window)
      [] self.cls = "DualAntennaDistanceMonitor" ->
             DualAntennaDistanceMonitor(self.rx1.receiver_id, self.rx2.receiver_id,
                                        self.monitor_timeout, self.min_samples, self.threshold,
                                        self.rx1.samples.target_elapsed_time[1])

\* the caller stops feeding a monitor whose buffers reached the model's bounds
RECURSIVE DictAll(_, _)
DictAll(d, n) ==
    IF d = <<>> THEN TRUE ELSE BufLen(d[1].val) < n /\ DictAll(Tail(d), n)

HasRoom(self) ==
    CASE self.cls = "StationaryVelocityMonitor" -> TRUE
      [] self.cls = "StationaryPositionMonitor" -> self.num_accepted < MaxAccepted
      [] self.cls = "ClockRateMonitor" -> BufLen(self.samples) < MaxSamples
      [] self.cls = "CCDMonitor" -> BufLen(self.bias_samples) < MaxSamples
      [] self.cls = "CnoDropJammingMonitor" -> DictAll(self.cnos, MaxSamples)
      [] self.cls = "CnoThresholdJammingMonitor" -> TRUE
      [] self.cls = "DualAntennaDistanceMonitor" ->
             BufLen(self.rx1.samples) < MaxDualSamples
                 /\ BufLen(self.rx2.samples) < MaxDualSamples

-----------------------------------------------------------------------------
(* The state machine: a caller hands one message at a time to update, and  *)
(* may call reset() or hot_start_monitor() between two messages.  out      *)
(* records the last call and what it returned; hist holds the raw          *)
(* decisions of a filtered monitor since its last reset; twin is a monitor *)
(* constructed anew at the last reset() and given the same calls since.    *)

Outcome(op, r) ==
    [op |-> op, verified |-> r.verified, reset |-> r.reset, nometric |-> r.nometric,
     raw |-> r.raw, ret |-> r.ret, err |-> r.err]

NoOutcome(op) ==
    Outcome(op, Result(None, FALSE, FALSE, FALSE, None, None, NoError))

Init ==
    /\ mon \in InitialMonitors
    /\ twin = None
    /\ out = NoOutcome("init")
    /\ twinOut = NoOutcome("init")
    /\ hist = <<>>

\* hist after update returned r
HistAfter(self, h, r) ==
    LET kept == IF r.reset THEN <<>> ELSE h
    IN  IF IsFiltered(self) /\ r.raw # None THEN Append(kept, r.raw[1]) ELSE kept

\* the caller's variables after update returned r, and q on the twin
UpdateReturns(r, q) ==
    /\ mon' = r.mon
    /\ out' = Outcome("update", r)
    /\ hist' = HistAfter(mon, hist, r)
    /\ twin' = IF twin = None THEN None ELSE Some(q.mon)
    /\ twinOut' = IF twin = None THEN twinOut ELSE Outcome("update", q)

Update(message) ==
    /\ HasRoom(mon)
    /\ Len(hist) < MaxHist
    /\ UpdateReturns(update(mon, message),
                     update(IF twin = None THEN mon ELSE twin[1], message))

Reset ==
    /\ out.op # "reset"
    /\ mon' = reset(mon)
    /\ twin' = Some(Fresh(reset(mon)))
    /\ out' = NoOutcome("reset")
    /\ twinOut' = NoOutcome("reset")
    /\ hist' = <<>>

HotStart(average, num_accepted) ==
    /\ mon.cls = "StationaryPositionMonitor"
    /\ out.op # "hot_start"
    /\ hot_start_monitor_error(average, num_accepted) = NoError
    /\ mon' = hot_start_monitor(mon, average, num_accepted)
    /\ twin' = IF twin = None THEN None
               ELSE Some(hot_start_monitor(twin[1], average, num_accepted))
    /\ out' = NoOutcome("hot_start")
    /\ twinOut' = NoOutcome("hot_start")
    /\ UNCHANGED hist

\* the arguments a caller hot-starts with
HotAverages == {<<2, 2, 2>>}

HotCounts == {1, 3}

Next ==
    \/ \E message \in MessagesFor(mon) : Update(message)
    \/ Reset
    \/ \E average \in HotAverages, num_accepted \in HotCounts : HotStart(average, num_accepted)

Spec == Init /\ [][Next]_vars

-----------------------------------------------------------------------------
(* A second state machine: a caller drives one TimedBuffer directly.  mon  *)
(* holds the buffer; out records the last call and the exception, if any.  *)

TargetTimes == {Infinity} \cup {Some(t) : t \in Times}

BufSamples == {1, 2}

BufOutcome(op, err) == [NoOutcome(op) EXCEPT !.err = err]

\* the times a caller appends at: any of Times, or one before them all
OfferedTimes == Times \cup {-1}

InitBuf ==
    /\ mon \in {TimedBuffer(target, keep) : target \in TargetTimes, keep \in BOOLEAN}
               \cup {TimedRunningSum(target, 0) : target \in TargetTimes}
    /\ twin = None
    /\ out = NoOutcome("init")
    /\ twinOut = NoOutcome("init")
    /\ hist = <<>>

BufAppend(time, sample) ==
    /\ BufLen(mon) < MaxBufLen
    /\ mon' = append(mon, time, sample).buf
    /\ out' = BufOutcome("append", append(mon, time, sample).err)
    /\ UNCHANGED <<twin, twinOut, hist>>

BufSetTarget(val) ==
    /\ mon' = IF set_target_elapsed_time_error(val) # NoError THEN mon
              ELSE set_target_elapsed_time(mon, val)
    /\ out' = BufOutcome("target_elapsed_time", set_target_elapsed_time_error(val))
    /\ UNCHANGED <<twin, twinOut, hist>>

BufRemoveOld(keep_one_before) ==
    /\ mon' = remove_old_samples(mon, keep_one_before)
    /\ out' = BufOutcome("remove_old_samples", NoError)
    /\ UNCHANGED <<twin, twinOut, hist>>

BufPopleft ==
    /\ mon' = IF popleft_error(mon) # NoError THEN mon ELSE popleft(mon)
    /\ out' = BufOutcome("popleft", popleft_error(mon))
    /\ UNCHANGED <<twin, twinOut, hist>>

BufReset ==
    /\ mon' = IF mon.cls = "TimedRunningSum" THEN TimedRunningSum_reset(mon)
              ELSE TimedBuffer_reset(mon)
    /\ out' = BufOutcome("reset", NoError)
    /\ UNCHANGED <<twin, twinOut, hist>>

NextBuf ==
    \/ \E time \in OfferedTimes, sample \in BufSamples : BufAppend(time, sample)
    \/ \E val \in TargetTimes \cup {Some(-1)} : BufSetTarget(val)
    \/ \E keep_one_before \in BOOLEAN : BufRemoveOld(keep_one_before)
    \/ BufPopleft
    \/ BufReset

SpecBuf == InitBuf /\ [][NextBuf]_vars

-----------------------------------------------------------------------------
(* A third state machine: a caller drives one FIFORunningSum.  mon holds   *)
(* the object, hist the values appended since construction or the last     *)
(* reset, out the last call.                                               *)

\* the largest capacity constructed
MaxCapacity == 3

\* the most values appended between two resets
MaxAppends == 4

FifoValues == {-1, 1, 2}

InitFifo ==
    /\ mon \in {FIFORunningSum(max_size) : max_size \in 1..MaxCapacity}
    /\ twin = None
    /\ out = NoOutcome("init")
    /\ twinOut = NoOutcome("init")
    /\ hist = <<>>

FifoAppend(val) ==
    /\ Len(hist) < MaxAppends
    /\ mon' = FIFORunningSum_append(mon, val)
    /\ hist' = Append(hist, val)
    /\ out' = NoOutcome("append")
    /\ UNCHANGED <<twin, twinOut>>

FifoReset ==
    /\ mon' = FIFORunningSum_reset(mon)
    /\ hist' = <<>>
    /\ out' = NoOutcome("reset")
    /\ UNCHANGED <<twin, twinOut>>

NextFifo ==
    \/ \E val \in FifoValues : FifoAppend(val)
    \/ FifoReset

SpecFifo == InitFifo /\ [][NextFifo]_vars

-----------------------------------------------------------------------------
(* A fourth state machine: a caller drives one FIRFilter.  hist holds the  *)
(* samples pushed since construction or the last reset, oldest first.      *)

\* the most samples pushed between two resets
MaxPushes == 4

Coefficients == {<<>>, <<2>>, <<1, 2>>, <<3, 2, 1>>, <<1, 4, 2>>}

FirSamples == {0, 1}

InitFir ==
    /\ mon \in {FIRFilter(coefficients) : coefficients \in Coefficients}
    /\ twin = None
    /\ out = NoOutcome("init")
    /\ twinOut = NoOutcome("init")
    /\ hist = <<>>

FirAppendleft(sample) ==
    /\ Len(hist) < MaxPushes
    /\ mon' = FIRFilter_appendleft(mon, sample)
    /\ hist' = Append(hist, sample)
    /\ out' = NoOutcome("appendleft")
    /\ UNCHANGED <<twin, twinOut>>

FirReset ==
    /\ mon' = FIRFilter_reset(mon)
    /\ hist' = <<>>
    /\ out' = NoOutcome("reset")
    /\ UNCHANGED <<twin, twinOut>>

NextFir ==
    \/ \E sample \in FirSamples : FirAppendleft(sample)
    \/ FirReset

SpecFir == InitFir /\ [][NextFir]_vars

-----------------------------------------------------------------------------
(* The configuration machine: a caller constructs a monitor from a         *)
(* configuration, then changes its tunables and feeds it messages.  mon is *)
(* Some(monitor), or None when the constructor raised; out records the     *)
(* last call, its argument, the exception it raised and the monitor before *)
(* it; hist lists the calls made since construction.                       *)

\* the number of calls the caller makes on a constructed monitor
MaxCalls == 2

TunableValues == {-1, 0, 1, 2}

VelocityConfigs ==
    {[receiver_id |-> 1, monitor_timeout |-> None, min_detections |-> m, sample_window |-> n,
      threshold |-> t] : m \in {1, 2}, n \in {1, 2}, t \in {-1, 0, 2}}

PositionConfigs ==
    {[receiver_id |-> 1, monitor_timeout |-> None, min_detections |-> m, sample_window |-> 2,
      rejection_threshold |-> r, spoofing_threshold |-> t, num_init_samples |-> k] :
        m \in {2, 3}, r \in {-2, 2}, t \in {-3, 3}, k \in {2, 3}}

DeltaTConfigs ==
    {[receiver_id |-> 1, monitor_timeout |-> None, threshold |-> t, min_delta_t |-> a,
      max_delta_t |-> b] : t \in {0, 1}, a \in TunableValues, b \in TunableValues}

CnoConfigs ==
    {[receiver_id |-> 1, threshold |-> 5, time_window |-> w] : w \in {-1, 0, 1}}

DualConfigs ==
    {[receiver_id_1 |-> 1, receiver_id_2 |-> 2, monitor_timeout |-> None,
      minimum_samples |-> 1, threshold |-> t, time_range |-> w] :
        t \in {0, 1}, w \in {-1, 0, 1}}

MonitorClasses ==
    {"StationaryVelocityMonitor", "StationaryPositionMonitor", "ClockRateMonitor", "CCDMonitor",
     "CnoDropJammingMonitor", "CnoThresholdJammingMonitor", "DualAntennaDistanceMonitor"}

ConfigsFor(cls) ==
    CASE cls = "StationaryVelocityMonitor" -> VelocityConfigs
      [] cls = "StationaryPositionMonitor" -> PositionConfigs
      [] cls \in {"ClockRateMonitor", "CCDMonitor"} -> DeltaTConfigs
      [] cls \in {"CnoDropJammingMonitor", "CnoThresholdJammingMonitor"} -> CnoConfigs
      [] cls = "DualAntennaDistanceMonitor" -> DualConfigs

CfgOutcome(op, cls, config, val, err, before) ==
    [op |-> op, cls |-> cls, config |-> config, val |-> val, err |-> err, before |-> before]

Constructed(cls, c, r) ==
    /\ mon = r.mon
    /\ out = CfgOutcome("construct", cls, c, 0, r.err, None)
    /\ hist = <<>>
    /\ twin = None
    /\ twinOut = NoOutcome("init")

InitCfg == \E cls \in MonitorClasses : \E c \in ConfigsFor(cls) : Constructed(cls, c, construct(cls, c))

\* the caller's variables after a setter handed back r
SetterReturns(op, val, r) ==
    /\ mon' = Some(r.mon)
    /\ out' = CfgOutcome(op, mon[1].cls, <<>>, val, r.err, mon)
    /\ hist' = Append(hist, op)
    /\ UNCHANGED <<twin, twinOut>>

CanCall == mon # None /\ Len(hist) < MaxCalls

CfgSetThreshold(val) ==
    /\ CanCall
    /\ SetterReturns("threshold", val, set_threshold(mon[1], TRUE, val))

CfgSetMinDeltaT(val) ==
    /\ CanCall
    /\ mon[1].cls \in {"ClockRateMonitor", "CCDMonitor"}
    /\ SetterReturns("min_delta_t", val, set_min_delta_t(mon[1], val))

CfgSetMaxDeltaT(val) ==
    /\ CanCall
    /\ mon[1].cls \in {"ClockRateMonitor", "CCDMonitor"}
    /\ SetterReturns("max_delta_t", val, set_max_delta_t(mon[1], val))

CfgSetTimeWindow(val) ==
    /\ CanCall
    /\ mon[1].cls \in {"CnoDropJammingMonitor", "CnoThresholdJammingMonitor"}
    /\ SetterReturns("time_window", val, set_time_window(mon[1], val))

CfgSetTimeRange(val) ==
    /\ CanCall
    /\ mon[1].cls = "DualAntennaDistanceMonitor"
    /\ SetterReturns("time_range", val, set_time_range(mon[1], val))

CfgUpdate(message) ==
    /\ CanCall
    /\ HasRoom(mon[1])
    /\ SetterReturns("update", message.rxTime, update(mon[1], message))

\* nothing can be called when the constructor raised
CfgMessages == IF mon = None THEN {} ELSE MessagesFor(mon[1])

NextCfg ==
    \/ \E val \in TunableValues : CfgSetThreshold(val)
    \/ \E val \in TunableValues : CfgSetMinDeltaT(val)
    \/ \E val \in TunableValues : CfgSetMaxDeltaT(val)
    \/ \E val \in TunableValues : CfgSetTimeWindow(val)
    \/ \E val \in TunableValues : CfgSetTimeRange(val)
    \/ \E message \in CfgMessages : CfgUpdate(message)

SpecCfg == InitCfg /\ [][NextCfg]_vars

-----------------------------------------------------------------------------
(* The dual-antenna machine: the caller of Spec, with dual-antenna         *)
(* monitors of several configurations only.                                *)

DualMonitors ==
    {DualAntennaDistanceMonitor(1, 2, T, n, 1, w) : T \in Timeouts, n \in {1, 2}, w \in {1, 2}}

InitDual ==
    /\ mon \in DualMonitors
    /\ twin = None
    /\ out = NoOutcome("init")
    /\ twinOut = NoOutcome("init")
    /\ hist = <<>>

NextDual ==
    \/ \E message \in MessagesFor(mon) : Update(message)
    \/ Reset

SpecDual == InitDual /\ [][NextDual]_vars

-----------------------------------------------------------------------------
(* The C/N0 machine: the caller of Spec, with C/N0 drop and threshold      *)
(* monitors of several thresholds and time windows only.                   *)

CnoMonitors ==
    {CnoDropJammingMonitor(1, t, w) : t \in {5, 20}, w \in {0, 1, 2}}
    \cup {CnoThresholdJammingMonitor(1, 30, w) : w \in {0, 1}}

InitCno ==
    /\ mon \in CnoMonitors
    /\ twin = None
    /\ out = NoOutcome("init")
    /\ twinOut = NoOutcome("init")
    /\ hist = <<>>

NextCno ==
    \/ \E message \in MessagesFor(mon) : Update(message)
    \/ Reset

SpecCno == InitCno /\ [][NextCno]_vars

-----------------------------------------------------------------------------
(* The factory machine: the modules of the package are imported in some     *)
(* order, each defining its Monitor classes, and from_config is called in   *)
(* between. hist is the order in which the modules defined their classes.   *)

\* at most MaxModules modules are imported
MaxModules == 3

MonitorModules ==
    {"filtered_monitor", "ccd_monitor", "clock_rate_monitor", "cn0_drop_monitor",
     "cn0_spoofing_monitor", "cn0_threshold_monitor", "dual_antenna_distance_monitor",
     "stationary_position_monitor", "stationary_velocity_monitor"}

\* the class statements of a module, in order: <<name, parent>>
ClassesOf(module) ==
    CASE module = "filtered_monitor" -> << <<"FilteredMonitor", "Monitor">> >>
      [] module = "ccd_monitor" -> << <<"CCDMonitor", "Monitor">> >>
      [] module = "clock_rate_monitor" -> << <<"ClockRateMonitor", "Monitor">> >>
      [] module = "cn0_drop_monitor" -> << <<"CnoDropJammingMonitor", "Monitor">> >>
      [] module = "cn0_spoofing_monitor" -> << <<"CnoSpoofingMonitor", "Monitor">> >>
      [] module = "cn0_threshold_monitor" -> << <<"CnoThresholdJammingMonitor", "Monitor">> >>
      [] module = "dual_antenna_distance_monitor" ->
             << <<"StubPosMonitor", "Monitor">>, <<"DualAntennaDistanceMonitor", "Monitor">> >>
      [] module = "stationary_position_monitor" ->
             << <<"StationaryPositionMonitor", "FilteredMonitor">> >>
      [] module = "stationary_velocity_monitor" ->
             << <<"StationaryVelocityMonitor", "FilteredMonitor">> >>

\* from epsilon import filtered_monitor, at the head of the module
ImportsOf(module) ==
    IF module \in {"stationary_position_monitor", "stationary_velocity_monitor"}
    THEN <<"filtered_monitor">>
    ELSE <<>>

Loaded(modules) == {modules[i] : i \in 1..Len(modules)}

RECURSIVE DefinedClasses(_)
\* every class statement executed so far, in order
DefinedClasses(modules) ==
    IF modules = <<>> THEN <<>>
    ELSE ClassesOf(Head(modules)) \o DefinedClasses(Tail(modules))

IsChildOf(cls, entry) == entry[2] = cls

RECURSIVE NamesOf(_)
NamesOf(entries) ==
    IF entries = <<>> THEN <<>>
    ELSE <<Head(entries)[1]>> \o NamesOf(Tail(entries))

RECURSIVE ChildrenOf(_, _)
ChildrenOf(cls, entries) ==
    IF entries = <<>> THEN <<>>
    ELSE IF IsChildOf(cls, Head(entries))
    THEN <<Head(entries)>> \o ChildrenOf(cls, Tail(entries))
    ELSE ChildrenOf(cls, Tail(entries))

\* cls.__subclasses__(): the direct subclasses, in order of definition
subclasses(cls, modules) == NamesOf(ChildrenOf(cls, DefinedClasses(modules)))

RECURSIVE from_config(_, _, _, _)
\* modules: the interpreter's loaded modules, read through __subclasses__
from_config(monitor_name, configuration, cls, modules) ==
    IF \E i \in 1..Len(subclasses(cls, modules)) : subclasses(cls, modules)[i] = monitor_name
    THEN \* return sub(**configuration)
         construct(monitor_name, configuration)
    ELSE IF subclasses(cls, modules) # <<>>
    THEN \* for sub in cls.__subclasses__(): return from_config(..., cls=sub)
         from_config(monitor_name, configuration, Head(subclasses(cls, modules)), modules)
    ELSE Assigned(None)

\* a name no class of the package has
NoSuchClass == "Nonexistent"

InitReg ==
    /\ mon = None
    /\ twin = None
    /\ out = NoOutcome("init")
    /\ twinOut = NoOutcome("init")
    /\ hist = <<>>

\* import epsilon.<module>: its own imports first, then its class statements
Import(module) ==
    /\ module \notin Loaded(hist)
    /\ hist' = hist \o SelectSeq(ImportsOf(module), LAMBDA m : m \notin Loaded(hist)) \o <<module>>
    /\ Len(hist') <= MaxModules
    /\ UNCHANGED <<mon, twin, out, twinOut>>

\* monitor.from_config(monitor_name, configuration)
FromConfig(monitor_name, configuration) ==
    /\ mon' = from_config(monitor_name, configuration, "Monitor", hist).mon
    /\ out' = CfgOutcome("from_config", monitor_name, configuration, 0,
                         from_config(monitor_name, configuration, "Monitor", hist).err, hist)
    /\ UNCHANGED <<twin, twinOut, hist>>

RequestedNames == MonitorClasses \cup {NoSuchClass}

\* the configurations handed to the factory: valid ones, and some the
\* constructor refuses
RequestConfigs(monitor_name) ==
    CASE monitor_name = "StationaryVelocityMonitor" -> {c \in VelocityConfigs : c.threshold = 2}
      [] monitor_name = "StationaryPositionMonitor" ->
             {c \in PositionConfigs : c.rejection_threshold = 2 /\ c.spoofing_threshold = 3
                                          /\ c.num_init_samples = 2}
      [] monitor_name \in {"ClockRateMonitor", "CCDMonitor"} ->
             {c \in DeltaTConfigs : c.threshold = 1 /\ c.min_delta_t = 1 /\ c.max_delta_t >= 0}
      [] monitor_name = "DualAntennaDistanceMonitor" -> {c \in DualConfigs : c.threshold = 1}
      [] OTHER -> CnoConfigs

NextReg ==
    \/ \E module \in MonitorModules : Import(module)
    \/ \E monitor_name \in RequestedNames : \E c \in RequestConfigs(monitor_name) : FromConfig(monitor_name, c)

SpecReg == InitReg /\ [][NextReg]_vars

-----------------------------------------------------------------------------
(* The tuning machine: a CCD or clock-rate monitor is fed messages, reset   *)
(* and re-tuned through its min_delta_t and max_delta_t setters while it    *)
(* holds samples.                                                           *)

\* entries a sample buffer of a monitor under tuning holds
MaxTuneSamples == 3

TuneMonitors ==
    {CCDMonitor(1, None, 1, 2, 2), CCDMonitor(1, Some(2), 1, 1, 2),
     ClockRateMonitor(1, None, 1, 1, 2)}

\* the values handed to the setters
TuneValues == 0..2

\* the messages of Spec that carry no clock_rate or a positive one
TuneMessages(self) ==
    {message \in MessagesFor(self) : "clock_rate" \in message.has => message.clock_rate > 0}

TuneSamples(self) == IF self.cls = "CCDMonitor" THEN self.bias_samples ELSE self.samples

InitTune ==
    /\ mon \in TuneMonitors
    /\ twin = None
    /\ out = NoOutcome("init")
    /\ twinOut = NoOutcome("init")
    /\ hist = <<>>

TuneUpdate(message) ==
    /\ BufLen(TuneSamples(mon)) < MaxTuneSamples
    /\ UpdateReturns(update(mon, message), update(mon, message))

TuneReset ==
    /\ out.op # "reset"
    /\ mon' = reset(mon)
    /\ out' = NoOutcome("reset")
    /\ UNCHANGED <<twin, twinOut, hist>>

\* monitor.min_delta_t = val
TuneSetMinDeltaT(val) ==
    /\ mon' = set_min_delta_t(mon, val).mon
    /\ out' = [NoOutcome("set_min_delta_t") EXCEPT !.err = set_min_delta_t(mon, val).err]
    /\ UNCHANGED <<twin, twinOut, hist>>

\* monitor.max_delta_t = val
TuneSetMaxDeltaT(val) ==
    /\ mon' = set_max_delta_t(mon, val).mon
    /\ out' = [NoOutcome("set_max_delta_t") EXCEPT !.err = set_max_delta_t(mon, val).err]
    /\ UNCHANGED <<twin, twinOut, hist>>

NextTune ==
    \/ \E message \in TuneMessages(mon) : TuneUpdate(message)
    \/ TuneReset
    \/ \E val \in TuneValues : TuneSetMinDeltaT(val)
    \/ \E val \in TuneValues : TuneSetMaxDeltaT(val)

SpecTune == InitTune /\ [][NextTune]_vars

-----------------------------------------------------------------------------
(* The signed-time machine: the caller of Spec with a clock that starts     *)
(* below zero, rxTime ranging over -TimeShift..MaxTime - TimeShift.         *)

\* how far below zero rxTime starts
TimeShift == 1

SignedMessages(self) ==
    {[message EXCEPT !.rxTime = @ - TimeShift] : message \in MessagesFor(self)}

SignedUpdate(message) ==
    /\ HasRoom(mon)
    /\ Len(hist) < MaxHist
    /\ UpdateReturns(update(mon, message), update(mon, message))

SignedReset ==
    /\ out.op # "reset"
    /\ mon' = reset(mon)
    /\ out' = NoOutcome("reset")
    /\ hist' = <<>>
    /\ UNCHANGED <<twin, twinOut>>

NextSigned ==
    \/ \E message \in SignedMessages(mon) : SignedUpdate(message)
    \/ SignedReset

SpecSigned == Init /\ [][NextSigned]_vars

-----------------------------------------------------------------------------
(* The uniform-feed machine: a clock-rate monitor is handed valid           *)
(* clock_rate messages whose rxTime advances by one spacing, chosen with    *)
(* the second message.  hist holds the rxTime of every message fed.         *)

\* messages fed to a monitor
MaxFeeds == 5

Spacings == {1, 2}

UniformMonitors ==
    {ClockRateMonitor(1, T, 1, c[1], c[2]) :
         T \in {None, Some(3)},
         c \in {<<1, 1>>, <<1, 2>>, <<2, 2>>, <<2, 3>>, <<3, 3>>, <<0, 1>>}}

ClockRateMessage(rid, t, rate) ==
    [GoodHeader(t, rid) EXCEPT !.has = Header \cup {"clock_rate"}, !.clock_rate = rate]

\* the rxTime the next message may carry
NextFeedTimes(times) ==
    IF times = <<>> THEN {0}
    ELSE IF Len(times) = 1 THEN {times[1] + d : d \in Spacings}
    ELSE {times[Len(times)] + (times[2] - times[1])}

InitUniform ==
    /\ mon \in UniformMonitors
    /\ twin = None
    /\ out = NoOutcome("init")
    /\ twinOut = NoOutcome("init")
    /\ hist = <<>>

Feed(t, rate) ==
    /\ Len(hist) < MaxFeeds
    /\ mon' = update(mon, ClockRateMessage(mon.receiver_id, t, rate)).mon
    /\ out' = Outcome("update", update(mon, ClockRateMessage(mon.receiver_id, t, rate)))
    /\ hist' = Append(hist, t)
    /\ UNCHANGED <<twin, twinOut>>

NextUniform == \E t \in NextFeedTimes(hist), rate \in {0, 2} : Feed(t, rate)

SpecUniform == InitUniform /\ [][NextUniform]_vars

-----------------------------------------------------------------------------
(* The timed machine: the caller of Spec, with the monitors that were      *)
(* constructed with a monitor_timeout only.                                *)

TimedMonitors == {self \in InitialMonitors : self.monitor_timeout # None}

InitTimed ==
    /\ mon \in TimedMonitors
    /\ twin = None
    /\ out = NoOutcome("init")
    /\ twinOut = NoOutcome("init")
    /\ hist = <<>>

NextTimed ==
    \/ \E message \in MessagesFor(mon) : Update(message)
    \/ Reset

SpecTimed == InitTimed /\ [][NextTimed]_vars

-----------------------------------------------------------------------------
(* Properties of Monitor.update, checked in every reachable state against  *)
(* every message the caller may hand over next.                            *)

ReceiverIds(self) ==
    IF self.cls = "DualAntennaDistanceMonitor"
    THEN {self.rx1.receiver_id, self.rx2.receiver_id}
    ELSE {self.receiver_id}

ForeignId(self) == IF self.cls = "DualAntennaDistanceMonitor" THEN 3 ELSE 2

\* the next message: any message of Next, or a refused one at any time
NextMessages(self) ==
    MessagesFor(self) \cup AllBadHeaders(self.receiver_id, ForeignId(self))

\* a message the contract calls unusable
Unusable(self, message) ==
    \/ ~(Header \subseteq message.has)
    \/ ~message.validity
    \/ message.receiver_id \notin ReceiverIds(self)
    \/ (self.last_event_time # None /\ message.rxTime < self.last_event_time[1])

\* C1: update on an unusable message (a header field missing, validity
\* false, a foreign receiver_id, or rxTime strictly less than
\* last_event_time) returns None, raises nothing and leaves the whole
\* monitor as it was; a usable message whose rxTime equals last_event_time
\* is accepted.
UnusableMessageLeavesStateUnchanged ==
    \A message \in NextMessages(mon) :
        LET r == update(mon, message)
        IN  /\ Unusable(mon, message) =>
                /\ ~r.verified
                /\ r.ret = None
                /\ r.err = NoError
                /\ r.mon = mon
            /\ (~Unusable(mon, message) /\ mon.last_event_time = Some(message.rxTime)) =>
                /\ r.verified
                /\ r.mon.last_event_time = Some(message.rxTime)

\* a filtered monitor holding a metric and detections has just refused a
\* message, and an older message of its own receiver exists
RejectedWithHistory ==
    /\ out.op = "update"
    /\ ~out.verified
    /\ out.ret = None
    /\ IsFiltered(mon)
    /\ mon.detections.buffer # <<>>
    /\ mon.status.metric # None
    /\ mon.last_event_time # None
    /\ \E message \in MessagesFor(mon) :
          /\ Header \subseteq message.has
          /\ message.validity
          /\ message.receiver_id = mon.receiver_id
          /\ message.rxTime < mon.last_event_time[1]

RECURSIVE CountTrue(_)
CountTrue(flags) ==
    IF flags = <<>> THEN 0
    ELSE (IF flags[1] THEN 1 ELSE 0) + CountTrue(Tail(flags))

\* C2: after every update of a filtered monitor that yields a raw decision,
\* the value returned and status.alarm are true iff at least min_detections
\* of the last min(sample_window, k) raw flags are true, k being the number
\* of raw decisions since construction or the last reset; status.spoofing_flag
\* is the raw flag of that update.
AlarmIsMOfN ==
    (IsFiltered(mon) /\ out.op = "update" /\ out.raw # None) =>
        LET k == Len(hist)
            N == mon.detections.maxlen
            M == mon.min_detections
            expected == CountTrue(LastN(hist, Min(N, k))) >= M
        IN  /\ k > 0
            /\ out.raw = Some(hist[k])
            /\ out.ret = Some(expected)
            /\ mon.status.alarm = expected
            /\ mon.status.spoofing_flag = hist[k]

\* more raw decisions than the window holds, enough flags in all of them to
\* alarm, too few in the window: the alarm has reverted to false
AlarmRevertedAfterWindowMoved ==
    /\ IsFiltered(mon)
    /\ out.op = "update"
    /\ out.raw # None
    /\ Len(hist) > mon.detections.maxlen
    /\ CountTrue(hist) >= mon.min_detections
    /\ ~mon.status.alarm
    /\ out.ret = Some(FALSE)

\* C3: for an accepted message at time t, reset() runs iff monitor_timeout T
\* and last_event_time L are set and t - L >= T.  When it runs the message
\* is processed against the reset monitor; when it does not, the call does
\* what it does on a monitor without timeout.  Either way last_event_time
\* is t afterwards.
TimeoutGuardResetsIffGapReached ==
    \A message \in MessagesFor(mon) :
        LET r == update(mon, message)
            due == /\ mon.monitor_timeout # None
                   /\ mon.last_event_time # None
                   /\ message.rxTime - mon.last_event_time[1] >= mon.monitor_timeout[1]
        IN  ~Unusable(mon, message) =>
                /\ r.reset <=> due
                /\ r.mon.last_event_time = Some(message.rxTime)
                /\ due => r = [update(reset(mon), message) EXCEPT !.reset = TRUE]
                /\ ~due => r.mon = [update([mon EXCEPT !.monitor_timeout = None], message).mon
                                       EXCEPT !.monitor_timeout = mon.monitor_timeout]

\* a message exactly monitor_timeout after the previous one has reset the
\* monitor and has then been processed
ResetAtExactGap ==
    /\ out.op = "update"
    /\ out.reset
    /\ mon.monitor_timeout = Some(2)
    /\ mon.last_event_time = Some(2)
    /\ mon.cls \in {"ClockRateMonitor", "CCDMonitor"}
    /\ BufLen(IF mon.cls = "CCDMonitor" THEN mon.bias_samples ELSE mon.samples) = 1

\* C4: when an accepted message yields no metric and the timeout guard did
\* not fire, update returns None, raises nothing and leaves status (alarm,
\* metric, spoofing_flag) and the detection window as they were.
NoMetricLeavesStatusUnchanged ==
    \A message \in MessagesFor(mon) :
        LET r == update(mon, message)
        IN  (r.verified /\ ~r.reset /\ r.nometric) =>
                /\ r.ret = None
                /\ r.err = NoError
                /\ r.mon.status = mon.status
                /\ IsFiltered(mon) => r.mon.detections = mon.detections

\* an accepted message gave no metric and the alarm raised before is still up
AlarmSurvivesNoMetric ==
    /\ out.op = "update"
    /\ out.verified
    /\ ~out.reset
    /\ out.nometric
    /\ out.ret = None
    /\ mon.status.alarm
    /\ mon.status.metric # None

\* C5: every update is atomic: a call that refuses its message or fails
\* with an error leaves the monitor exactly as it was before the call.
UpdateIsAtomic ==
    \A message \in MessagesFor(mon) :
        LET r == update(mon, message)
        IN  (~r.verified \/ r.err # NoError) => r.mon = mon

\* C6: once a channel of a C/N0 threshold monitor has been invalidated,
\* every later accepted message carrying an sv list is processed without
\* error, the invalidated channel stays out of the maximum until it is
\* sighted again, and a decision is returned from the channels still valid.
StaleChannelIsHarmless ==
    (mon.cls = "CnoThresholdJammingMonitor"
        /\ \E i \in 1..Len(mon.cnos) : mon.cnos[i].val = None) =>
        \A message \in MessagesFor(mon) :
            LET r == update(mon, message)
            IN  (r.verified /\ "svs" \in message.has) =>
                    /\ r.err = NoError
                    /\ (\E i \in 1..Len(r.mon.cnos) : r.mon.cnos[i].val # None) => r.ret # None

\* an sv entry that is complete, of quality 4 or more and of positive cno
UsableSv(sv) == SvFields \subseteq sv.has /\ sv.qualityInd >= 4 /\ sv.cno > 0

\* C7: in the C/N0 drop and the C/N0 threshold monitor an sv entry with
\* quality_indicator < 4, cno <= 0 or a missing field is skipped: the
\* update does exactly what it does on the same message without such
\* entries, and raises nothing.
BadSvEntriesAreSkipped ==
    (mon.cls \in {"CnoDropJammingMonitor", "CnoThresholdJammingMonitor"}
        /\ \A i \in 1..Len(mon.cnos) : mon.cnos[i].val # None) =>
        \A message \in MessagesFor(mon) :
            LET r == update(mon, message)
                cleaned == [message EXCEPT !.svs = SelectSeq(message.svs, UsableSv)]
            IN  (r.verified /\ "svs" \in message.has) =>
                    /\ r.err = NoError
                    /\ r = update(mon, cleaned)

SingleReceiverMonitors ==
    {"CCDMonitor", "ClockRateMonitor", "StationaryPositionMonitor",
     "StationaryVelocityMonitor", "CnoDropJammingMonitor", "CnoThresholdJammingMonitor"}

\* C8: for a single-receiver monitor reset() leaves the configuration
\* (thresholds, windows) as it was, and from then on the monitor returns
\* the same values, raises the same errors and shows the same status as a
\* monitor constructed anew with that configuration and given the same
\* calls; a position monitor accepts as many positions and holds the same
\* average as the new one, so the zero vector reset() stores never enters
\* the mean.
ResetBehavesLikeFresh ==
    mon.cls \in SingleReceiverMonitors =>
        /\ Fresh(reset(mon)) = Fresh(mon)
        /\ reset(mon).status.threshold = mon.status.threshold
        /\ twin # None =>
              /\ out.ret = twinOut.ret
              /\ out.err = twinOut.err
              /\ out.nometric = twinOut.nometric
              /\ mon.status = twin[1].status
              /\ Fresh(mon) = Fresh(twin[1])
              /\ mon.cls = "StationaryPositionMonitor" =>
                    /\ mon.num_accepted = twin[1].num_accepted
                    /\ mon.num_accepted > 0 => mon.average = twin[1].average

\* a position monitor that was reset has taken its initial positions again
\* and has raised an alarm, as the monitor constructed anew has
PositionAlarmAfterReset ==
    /\ twin # None
    /\ mon.cls = "StationaryPositionMonitor"
    /\ out.op = "update"
    /\ out.ret = Some(TRUE)
    /\ twinOut.ret = Some(TRUE)
    /\ mon.num_accepted >= mon.num_init_samples

\* C9: after reset() of a dual-antenna monitor, called by the user or by
\* the timeout guard inside update, an accepted message is processed
\* without error.
DualWorksAfterReset ==
    mon.cls = "DualAntennaDistanceMonitor" =>
        \A message \in MessagesFor(mon) :
            /\ update(mon, message).reset => update(mon, message).err = NoError
            /\ update(reset(mon), message).verified => update(reset(mon), message).err = NoError

-----------------------------------------------------------------------------
(* Properties of TimedBuffer, checked under SpecBuf *)

Entries(self) == [i \in 1..BufLen(self) |-> <<self.time_buffer[i], self.sample_buffer[i]>>]

\* the entries of s at the indices in idx, in order
SubSeqAt(s, idx) ==
    LET f[i \in 0..Len(s)] ==
            IF i = 0 THEN <<>>
            ELSE IF i \in idx THEN Append(f[i - 1], s[i]) ELSE f[i - 1]
    IN  f[Len(s)]

\* what the contract retains of the entries present: those at or after the
\* cutoff and the newest one before it
Retained(present, target) ==
    IF present = <<>> \/ target = Infinity THEN present
    ELSE LET cutoff == present[Len(present)][1] - target[1]
             inside == {i \in 1..Len(present) : present[i][1] >= cutoff}
             older == {i \in 1..Len(present) : present[i][1] < cutoff}
             grace == {i \in older : \A j \in older : j <= i}
         IN  SubSeqAt(present, inside \cup grace)

NonDecreasing(times) == \A i, j \in 1..Len(times) : i <= j => times[i] <= times[j]

RECURSIVE AppendTimes(_, _, _)
AppendTimes(self, from, to) ==
    IF from > to THEN self
    ELSE AppendTimes(TimedBuffer_append(self, from, from * from), from + 1, to)

\* C10: for a TimedBuffer with keep_one_sample_before true, after every
\* append and every change of target_elapsed_time the buffer holds exactly
\* the entries at or after cutoff = newest_time - target_elapsed_time plus
\* the single newest entry before the cutoff, with times in non-decreasing
\* order; appends at times 0..9 followed by target 5 leave the 7 entries of
\* times 3..9.
KeepOneRetainsGraceSample ==
    mon.keep_one =>
        /\ \A time \in Times, sample \in BufSamples :
              TimedBuffer_append_error(mon, time) = NoError =>
                  LET after == TimedBuffer_append(mon, time, sample)
                  IN  /\ Entries(after)
                            = Retained(Append(Entries(mon), <<time, sample>>),
                                       mon.target_elapsed_time)
                      /\ NonDecreasing(after.time_buffer)
        /\ \A val \in TargetTimes :
              LET after == set_target_elapsed_time(mon, val)
              IN  /\ Entries(after) = Retained(Entries(mon), val)
                  /\ after.target_elapsed_time = val
                  /\ NonDecreasing(after.time_buffer)
        /\ LET after == set_target_elapsed_time(AppendTimes(TimedBuffer(Some(10), TRUE), 0, 9),
                                                Some(5))
           IN  /\ after.time_buffer = <<3, 4, 5, 6, 7, 8, 9>>
               /\ oldest_sample(after) = Some(9)
               /\ newest_sample(after) = Some(81)

\* an append has just evicted and one entry older than the cutoff is held,
\* followed by entries of the window
GraceSampleHeld ==
    /\ mon.keep_one
    /\ out.op = "append"
    /\ out.err = NoError
    /\ mon.target_elapsed_time # Infinity
    /\ BufLen(mon) >= 3
    /\ mon.time_buffer[1] < newest_time(mon) - mon.target_elapsed_time[1]
    /\ mon.time_buffer[2] >= newest_time(mon) - mon.target_elapsed_time[1]
    /\ mon.time_buffer[1] > 0

\* C11: a TimedBuffer constructed with keep_one_sample_before false holds,
\* after every append, no entry older than newest_time - target_elapsed_time.
NoGraceSampleWithoutKeepOne ==
    (mon.cls = "TimedBuffer" /\ ~mon.keep_one /\ mon.target_elapsed_time # Infinity) =>
        \A time \in OfferedTimes, sample \in BufSamples :
            LET r == append(mon, time, sample)
            IN  r.err = NoError =>
                    \A i \in 1..BufLen(r.buf) :
                        r.buf.time_buffer[i] >= time - mon.target_elapsed_time[1]

\* C12: append(time, sample) raises the ordering error exactly when time is
\* less than the newest time held (0 for an empty buffer); an append at the
\* newest time succeeds and stores the entry; a failed append leaves the
\* times, the samples and a running sum as they were.
AppendFailsIffTimeGoesBack ==
    \A time \in OfferedTimes, sample \in BufSamples :
        LET r == append(mon, time, sample)
            last == IF mon.time_buffer = <<>> THEN 0
                    ELSE mon.time_buffer[Len(mon.time_buffer)]
        IN  /\ (r.err = "ValueError") <=> (time < last)
            /\ r.err \in {"ValueError", NoError}
            /\ r.err # NoError => r.buf = mon
            /\ time = last =>
                   /\ r.err = NoError
                   /\ newest_time(r.buf) = time
                   /\ newest_sample(r.buf) = Some(sample)

\* a running sum holding two entries has just refused an append
AppendRefused ==
    /\ mon.cls = "TimedRunningSum"
    /\ out.op = "append"
    /\ out.err = "ValueError"
    /\ BufLen(mon) >= 2
    /\ mon.sum > 0

\* C13: the sum of a TimedRunningSum is the sum of the samples it holds,
\* after every append (with the eviction it runs), popleft, change of
\* target_elapsed_time and reset.
RunningSumIsExact ==
    mon.cls = "TimedRunningSum" => mon.sum = SumSeq(mon.sample_buffer)

\* popleft has just removed the oldest of three or more samples
SumAfterPopleft ==
    /\ mon.cls = "TimedRunningSum"
    /\ out.op = "popleft"
    /\ out.err = NoError
    /\ BufLen(mon) >= 2
    /\ mon.sum = SumSeq(mon.sample_buffer)
    /\ mon.sum >= 3

-----------------------------------------------------------------------------
(* Properties of FIFORunningSum, checked under SpecFifo *)

RECURSIVE FifoAppendAll(_, _)
FifoAppendAll(self, vals) ==
    IF vals = <<>> THEN <<>>
    ELSE <<FIFORunningSum_append(self, vals[1]).sum>>
             \o FifoAppendAll(FIFORunningSum_append(self, vals[1]), Tail(vals))

\* C14: for a FIFORunningSum of capacity N >= 1, with count values appended
\* since construction or the last reset, sum is the sum of the last
\* min(N, count) of them and the length is min(N, count); capacity 3 fed
\* 1, 2, 3, 4, 5, 6 gives the sums 1, 3, 6, 9, 12, 15.
FifoSumIsSumOfLastN ==
    /\ mon.sum = SumSeq(LastN(hist, Min(mon.maxlen, Len(hist))))
    /\ Len(mon.buffer) = Min(mon.maxlen, Len(hist))
    /\ FIFORunningSum_reset(mon).sum = 0
    /\ Len(FIFORunningSum_reset(mon).buffer) = 0
    /\ FifoAppendAll(FIFORunningSum(3), <<1, 2, 3, 4, 5, 6>>) = <<1, 3, 6, 9, 12, 15>>

\* more values than the capacity were appended since the last reset, so
\* the oldest ones left the sum
FifoEvicted ==
    /\ out.op = "append"
    /\ mon.maxlen >= 2
    /\ Len(hist) > mon.maxlen
    /\ mon.sum # SumSeq(hist)

-----------------------------------------------------------------------------
(* Properties of FIRFilter, checked under SpecFir *)

\* the response to the samples pushed so far (oldest first), once L = Len(coefficients)
\* of them are there: coefficient i times the sample pushed i pushes ago
Convolution(coefficients, pushed) ==
    SumSeq([i \in 1..Len(coefficients) |-> coefficients[i] * pushed[Len(pushed) - i + 1]])

RECURSIVE FirPushAll(_, _)
FirPushAll(self, samples) ==
    IF samples = <<>> THEN <<>>
    ELSE <<FIRFilter_appendleft(self, samples[1]).response>>
             \o FirPushAll(FIRFilter_appendleft(self, samples[1]), Tail(samples))

\* C15: for a FIRFilter with L coefficients, response is None exactly when
\* fewer than L samples were pushed since construction or the last reset,
\* and otherwise the sum over i of coefficient i times the sample pushed i
\* pushes ago; reset leaves the coefficients unchanged; [3, 2, 1] fed the
\* impulse 0, 0, 0, 1, 0, 0, 0 answers 0, 3, 2, 1, 0 from the third push on.
FirResponseIsConvolution ==
    /\ (mon.response = None) <=> (Len(hist) < mon.filter_length)
    /\ Len(hist) >= mon.filter_length =>
           mon.response = Some(Convolution(mon.coefficients, hist))
    /\ FIRFilter_reset(mon).coefficients = mon.coefficients
    /\ FIRFilter_reset(mon).filter_length = mon.filter_length
    /\ FIRFilter_reset(mon).response = None
    /\ FirPushAll(FIRFilter(<<3, 2, 1>>), <<0, 0, 0, 1, 0, 0, 0>>)
           = <<None, None, Some(0), Some(3), Some(2), Some(1), Some(0)>>

-----------------------------------------------------------------------------
(* Properties of the clock monitors, checked under Spec *)

\* the window a clock monitor computes its metric from
ClockWindow(self) == IF self.cls = "CCDMonitor" THEN self.bias_samples ELSE self.samples

\* every bias delta the monitor holds is the trapezoid term of its interval
RetainedClockConsistent(self) ==
    /\ self.bias_samples.time_buffer = self.rate_integral.time_buffer
    /\ \A i \in 1..BufLen(self.bias_samples) :
           2 * self.bias_samples.sample_buffer[i] = self.rate_integral.sample_buffer[i]

\* the bias delta of the message is the trapezoid integral of the rate since
\* the previous clock message
MessageClockConsistent(self, message) ==
    ({"clock_rate", "clock_bias"} \subseteq message.has /\ self.last_rate # None) =>
        2 * message.clock_bias
            = (message.clock_rate + self.last_rate[1]) * (message.rxTime - self.last_time[1])

\* C16: a CCDMonitor fed a consistent clock, each clock_bias being the
\* trapezoid integral of clock_rate over the interval since the previous
\* message, yields only the metric 0 and never raises the alarm.
ConsistentClockGivesZeroMetric ==
    (mon.cls = "CCDMonitor" /\ RetainedClockConsistent(mon)) =>
        \A message \in MessagesFor(mon) :
            MessageClockConsistent(mon, message) =>
                LET r == update(mon, message)
                IN  /\ r.err = NoError
                    /\ r.verified => RetainedClockConsistent(r.mon)
                    /\ r.raw # None =>
                           /\ r.mon.status.metric = Some(Real(0, 1, FALSE))
                           /\ r.raw = Some(FALSE)
                           /\ ~r.mon.status.alarm

\* a window of two consistent, non-zero bias deltas has just given metric 0
ZeroMetricOnConsistentClock ==
    /\ mon.cls = "CCDMonitor"
    /\ out.op = "update"
    /\ out.raw = Some(FALSE)
    /\ mon.status.metric = Some(Real(0, 1, FALSE))
    /\ RetainedClockConsistent(mon)
    /\ BufLen(mon.bias_samples) >= 2
    /\ mon.bias_samples.sum >= 2

\* C17: a CCDMonitor or ClockRateMonitor with 0 < min_delta_t <= max_delta_t
\* returns a metric only from a window with min_delta_t <= elapsed_time <=
\* max_delta_t; a window shorter than min_delta_t after eviction gives 'no
\* metric yet'; after every accepted message the window is within
\* max_delta_t, the single pop of the clock rate monitor sufficing.
MetricWindowWithinDeltaT ==
    (/\ mon.cls \in {"CCDMonitor", "ClockRateMonitor"}
     /\ ClockWindow(mon).target_elapsed_time[1] > 0) =>
        \A message \in MessagesFor(mon) :
            LET r == update(mon, message)
                w == ClockWindow(r.mon)
            IN  (r.verified /\ r.err = NoError) =>
                    /\ elapsed_time(w) <= r.mon.max_delta_t
                    /\ r.raw # None => elapsed_time(w) >= w.target_elapsed_time[1]
                    /\ elapsed_time(w) < w.target_elapsed_time[1] =>
                           (r.raw = None /\ r.nometric)

\* a clock rate monitor with min_delta_t = max_delta_t = 1 has just returned
\* a metric from the window of times 1 and 2
MetricFromTrimmedWindow ==
    /\ mon.cls = "ClockRateMonitor"
    /\ mon.max_delta_t = 1
    /\ out.op = "update"
    /\ out.raw # None
    /\ mon.samples.time_buffer = <<1, 2>>

-----------------------------------------------------------------------------
(* Properties of StationaryPositionMonitor, checked under Spec *)

\* an accepted message of the monitor's receiver carrying the position
PositionMessage(self, position) ==
    [GoodHeader(MaxTime, self.receiver_id) EXCEPT !.has = Header \cup {"ecef_position"},
                                                  !.ecef_position = position]

\* what update returns for each of the positions, fed one after the other
RECURSIVE FeedPositions(_, _)
FeedPositions(self, positions) ==
    IF positions = <<>> THEN <<>>
    ELSE <<update(self, PositionMessage(self, positions[1]))>>
             \o FeedPositions(update(self, PositionMessage(self, positions[1])).mon,
                              Tail(positions))

\* den * den times the squared distance of position from the point num / den
SquaredOffset(position, num, den) ==
    SumSeq([i \in 1..3 |-> (position[i] * den - num[i]) * (position[i] * den - num[i])])

\* C18: from the start of a run (construction or reset) of a monitor with
\* num_init_samples = K, the first K position messages yield 'no metric
\* yet' and are all folded into the average, and message K + 1 is the first
\* to yield a metric: its distance from the mean of the first K positions.
BootstrapTakesKSamples ==
    (mon.cls = "StationaryPositionMonitor" /\ mon.num_accepted = 0) =>
        \A seq \in [1..(mon.num_init_samples + 1) -> Positions] :
            LET K == mon.num_init_samples
                rs == FeedPositions(mon, seq)
                total == [i \in 1..3 |-> SumSeq([k \in 1..K |-> seq[k][i]])]
            IN  /\ \A k \in 1..K :
                       /\ rs[k].verified
                       /\ rs[k].nometric
                       /\ rs[k].ret = None
                       /\ rs[k].mon.num_accepted = k
                /\ rs[K].mon.average = Some(Vec(total, K))
                /\ ~rs[K + 1].nometric
                /\ rs[K + 1].raw # None
                /\ rs[K + 1].mon.status.metric
                       = Some(Real(SquaredOffset(seq[K + 1], total, K), K * K, TRUE))

\* a monitor never reset has just yielded its first metric, on the message
\* after its three initialisation samples
FirstMetricAfterBootstrap ==
    /\ mon.cls = "StationaryPositionMonitor"
    /\ mon.monitor_timeout = None
    /\ twin = None
    /\ out.op = "update"
    /\ out.raw # None
    /\ Len(hist) = 1
    /\ mon.num_accepted = mon.num_init_samples
    /\ mon.average = Some(Vec(<<4, 2, 2>>, 3))
    /\ mon.status.metric # None

\* C19: after bootstrap, for an accepted position message at distance offset
\* from the average: offset < rejection_threshold folds the position into
\* the average and adds one to num_accepted, offset >= rejection_threshold
\* leaves both unchanged; the metric is offset, measured against the
\* average before folding.
OutlierRejectionIsStrict ==
    (mon.cls = "StationaryPositionMonitor" /\ mon.num_accepted >= mon.num_init_samples) =>
        \A message \in MessagesFor(mon) :
            "ecef_position" \in message.has =>
                LET r == update(mon, message)
                    a == mon.average[1]
                    n == mon.num_accepted
                    p == message.ecef_position
                    d2 == SquaredOffset(p, a.num, a.den)
                    T == mon.rejection_threshold
                IN  (r.verified /\ ~r.reset) =>
                        /\ r.err = NoError
                        /\ r.mon.status.metric = Some(Real(d2, a.den * a.den, TRUE))
                        /\ IF d2 < T * T * a.den * a.den
                           THEN /\ r.mon.num_accepted = n + 1
                                /\ \A i \in 1..3 :
                                       r.mon.average[1].num[i] * (a.den * (n + 1))
                                           = (a.num[i] * n + p[i] * a.den) * r.mon.average[1].den
                           ELSE /\ r.mon.average = mon.average
                                /\ r.mon.num_accepted = n

\* a position exactly rejection_threshold = 2 away from the average has
\* just been measured and left out of the average
BoundaryOffsetRejected ==
    /\ mon.cls = "StationaryPositionMonitor"
    /\ out.op = "update"
    /\ out.raw # None
    /\ mon.rejection_threshold = 2
    /\ mon.status.metric = Some(Real(4, 1, TRUE))
    /\ mon.num_accepted = mon.num_init_samples

-----------------------------------------------------------------------------
(* Properties of construction and of the tunables' setters, checked on the *)
(* configuration machine.                                                   *)

NegativeValues == {val \in TunableValues : val < 0}

\* C21: a StationaryVelocityMonitor never rejects a negative threshold: handed
\* to the constructor (the rest of the configuration being valid) or to the
\* threshold setter of a constructed monitor, the call raises nothing and the
\* monitor ends with threshold = status.threshold = |value|.
NegativeVelocityThresholdNeverRejected ==
    /\ (out.op = "construct" /\ out.cls = "StationaryVelocityMonitor"
            /\ out.config.threshold < 0
            /\ out.config.sample_window >= out.config.min_detections)
         => (/\ out.err = NoError
             /\ mon # None
             /\ mon[1].threshold = Abs(out.config.threshold)
             /\ mon[1].status.threshold = Abs(out.config.threshold))
    /\ (mon # None /\ mon[1].cls = "StationaryVelocityMonitor")
         => \A val \in NegativeValues :
                /\ set_threshold(mon[1], TRUE, val).err = NoError
                /\ set_threshold(mon[1], TRUE, val).mon.threshold = Abs(val)
                /\ set_threshold(mon[1], TRUE, val).mon.status.threshold = Abs(val)

DeltaTClasses == {"ClockRateMonitor", "CCDMonitor"}

FilteredClasses == {"StationaryVelocityMonitor", "StationaryPositionMonitor"}

\* the threshold a filtered monitor's configuration carries
ConfiguredThreshold(cls, c) ==
    IF cls = "StationaryPositionMonitor" THEN c.spoofing_threshold ELSE c.threshold

\* the rest of a filtered monitor's configuration is valid
FilteredRestValid(cls, c) ==
    /\ ConfiguredThreshold(cls, c) >= 0
    /\ cls = "StationaryPositionMonitor" => c.num_init_samples >= 3

NonPositiveDeltaTFailsConstruction ==
    (out.op = "construct" /\ out.cls \in DeltaTClasses
        /\ (out.config.min_delta_t <= 0 \/ out.config.max_delta_t <= 0)) =>
        (out.err # NoError /\ mon = None)

\* the classes whose threshold setter demands a positive value
PositiveThresholdClasses == {"CCDMonitor", "ClockRateMonitor", "DualAntennaDistanceMonitor"}

CnoClasses == {"CnoDropJammingMonitor", "CnoThresholdJammingMonitor"}

\* a setter handed back r on the monitor self: refused iff bad, and then
\* nothing changed
RefusedIff(bad, self, r) ==
    /\ bad <=> r.err # NoError
    /\ bad => (r.err = "ValueError" /\ r.mon = self)

ThresholdChangeRule(self, val, r) ==
    /\ self.cls \in PositiveThresholdClasses => RefusedIff(val <= 0, self, r)
    /\ r.err = NoError =>
           /\ r.mon.threshold = (IF IsFiltered(self) THEN Abs(val) ELSE val)
           /\ r.mon.status.threshold = r.mon.threshold

\* C29: in every state of a constructed monitor, whatever was changed before,
\* a setter call is refused iff its value is invalid (threshold <= 0 on the
\* CCD, clock-rate and dual-antenna monitors; min_delta_t <= 0; max_delta_t
\* <= 0; time_window < 0; time_range <= 0) and a refused call leaves the
\* whole monitor - values, status, buffers - as it was; an accepted threshold
\* is stored in threshold and in status.threshold.
RefusedChangeHasNoEffect ==
    mon # None =>
        \A val \in TunableValues :
            /\ ThresholdChangeRule(mon[1], val, set_threshold(mon[1], TRUE, val))
            /\ mon[1].cls \in DeltaTClasses =>
                   /\ RefusedIff(val <= 0, mon[1], set_min_delta_t(mon[1], val))
                   /\ RefusedIff(val <= 0, mon[1], set_max_delta_t(mon[1], val))
            /\ mon[1].cls \in CnoClasses =>
                   RefusedIff(val < 0, mon[1], set_time_window(mon[1], val))
            /\ mon[1].cls = "DualAntennaDistanceMonitor" =>
                   RefusedIff(val <= 0, mon[1], set_time_range(mon[1], val))

\* a clock-rate monitor holding a sample has just refused a threshold and is
\* as it was
RefusedThresholdOnFilledMonitor ==
    /\ mon # None
    /\ mon[1].cls = "ClockRateMonitor"
    /\ out.op = "threshold"
    /\ out.err = "ValueError"
    /\ out.before = mon
    /\ BufLen(mon[1].samples) > 0

-----------------------------------------------------------------------------
(* Properties of the dual-antenna monitor *)

\* (a) of C22 on the sub-monitors after the message was handed to its
\* sub-monitor: both newest-sample times are past the last combined
\* computation; there is none at construction and after a reset
BothAdvanced(before, after) ==
    IF before.last_update.k # "num" THEN TRUE
    ELSE /\ newest_time(after.rx1.samples) > before.last_update.v
         /\ newest_time(after.rx2.samples) > before.last_update.v

\* (b) of C22: both sub-monitors hold at least minimum_samples entries
BothFilled(after) ==
    /\ BufLen(after.rx1.samples) >= after.min_samples
    /\ BufLen(after.rx2.samples) >= after.min_samples

CombinedMetricRule(before, r) ==
    /\ r.raw # None => (BothAdvanced(before, r.mon) /\ BothFilled(r.mon))
    /\ ~(BothAdvanced(before, r.mon) /\ BothFilled(r.mon)) =>
           /\ r.nometric
           /\ r.ret = None
           /\ r.err = NoError
           /\ r.mon.status.metric = before.status.metric

\* C22: on an accepted message (the timeout guard not firing) a dual-antenna
\* monitor computes a combined metric only if both sub-monitors have advanced
\* past the last combined computation and both hold at least minimum_samples
\* entries; otherwise update returns None, raises nothing and status.metric
\* keeps its value.
CombinedMetricNeedsBothReceivers ==
    mon.cls = "DualAntennaDistanceMonitor" =>
        \A message \in MessagesFor(mon) :
            (verify_message(mon, message) /\ ~TimeoutGuard(mon, message)) =>
                CombinedMetricRule(mon, update(mon, message))

\* the times of the last message each receiver had accepted, as its
\* sub-monitor recorded them
LastAcceptedTimes(self) ==
    {rx.last_event_time[1] : rx \in {x \in {self.rx1, self.rx2} : x.last_event_time # None}}

AcceptableToDual(self, message) ==
    /\ Header \subseteq message.has
    /\ message.validity
    /\ message.receiver_id \in {self.rx1.receiver_id, self.rx2.receiver_id}
    /\ \A t \in LastAcceptedTimes(self) : message.rxTime >= t

\* C24: a dual-antenna monitor accepts a message iff it carries rxTime,
\* validity and receiver_id, validity is true, receiver_id is one of the two
\* configured ids and rxTime is not less than the time of the last message
\* accepted from either receiver; a message it refuses returns None and leaves
\* both sub-monitors as they were.
DualAcceptsEitherReceiverInOrder ==
    mon.cls = "DualAntennaDistanceMonitor" =>
        \A message \in NextMessages(mon) :
            /\ verify_message(mon, message) <=> AcceptableToDual(mon, message)
            /\ ~AcceptableToDual(mon, message) =>
                   /\ update(mon, message).ret = None
                   /\ update(mon, message).mon.rx1 = mon.rx1
                   /\ update(mon, message).mon.rx2 = mon.rx2

\* a message has just been refused while receiver 2 is ahead of receiver 1,
\* and receiver 1 has a message that is in order for itself but older than
\* the last one of receiver 2
OlderThanOtherReceiverRefused ==
    /\ mon.cls = "DualAntennaDistanceMonitor"
    /\ out.op = "update"
    /\ ~out.verified
    /\ mon.rx1.last_event_time # None
    /\ mon.rx2.last_event_time # None
    /\ BufLen(mon.rx1.samples) > 0
    /\ \E message \in MessagesFor(mon) :
          /\ Header \subseteq message.has
          /\ message.validity
          /\ message.receiver_id = mon.rx1.receiver_id
          /\ message.rxTime >= mon.rx1.last_event_time[1]
          /\ message.rxTime < mon.rx2.last_event_time[1]

\* every retained sample lies inside the window that ends at the newest one
WithinWindow(samples) ==
    \A i \in 1..BufLen(samples) :
        samples.time_buffer[i] >= newest_time(samples) - samples.target_elapsed_time[1]

\* the sub-monitor of the receiver the message comes from
SubMonitorFor(self, message) ==
    IF message.receiver_id # self.rx2.receiver_id THEN self.rx1 ELSE self.rx2

\* update(self, message) gave r
StrictEvictionRule(message, r) ==
    (r.verified /\ "ecef_position" \in message.has) =>
        /\ WithinWindow(SubMonitorFor(r.mon, message).samples)
        /\ BufLen(SubMonitorFor(r.mon, message).samples) > 0
        /\ newest_time(SubMonitorFor(r.mon, message).samples) = message.rxTime

\* C33: after each accepted position message of a receiver, every sample
\* retained in that receiver's buffer of a dual-antenna monitor has
\* time >= newest_time - time_range: no grace sample older than the window
\* remains, and the newest sample is the message's.
DualEvictsStrictly ==
    mon.cls = "DualAntennaDistanceMonitor" =>
        \A message \in MessagesFor(mon) : StrictEvictionRule(message, update(mon, message))

\* a receiver's buffer holds a sample of time 0 and its next position, two
\* seconds later with a window of one second, leaves only the new sample
OlderSampleEvictedOutright ==
    /\ mon.cls = "DualAntennaDistanceMonitor"
    /\ mon.monitor_timeout = None
    /\ mon.rx1.samples.target_elapsed_time = Some(1)
    /\ mon.rx1.samples.time_buffer = <<0>>
    /\ \E message \in MessagesFor(mon) :
          /\ message.receiver_id = mon.rx1.receiver_id
          /\ "ecef_position" \in message.has
          /\ message.rxTime = 2
          /\ update(mon, message).verified
          /\ update(mon, message).mon.rx1.samples.time_buffer = <<2>>

-----------------------------------------------------------------------------
(* Properties of the comparison with the threshold *)

\* the alarm documented for metric x against threshold t
DocumentedAlarm(cls, x, t) ==
    IF cls = "DualAntennaDistanceMonitor" THEN RealLT(x, t) \/ ~RealGT(x, t)
    ELSE IF cls = "CnoThresholdJammingMonitor" THEN RealLT(x, t)
    ELSE RealGT(x, t)

\* C23: after every update that yields a decision, the raw alarm is the
\* documented comparison of the stored metric with the threshold, equality
\* included: metric > threshold by default, metric <= threshold for the
\* dual-antenna monitor, metric < threshold for the C/N0 threshold monitor;
\* a monitor that is not filtered stores that alarm in status and returns it.
AlarmFollowsDocumentedComparison ==
    (out.op = "update" /\ out.raw # None /\ mon.cls # "CnoDropJammingMonitor") =>
        /\ out.err = NoError
        /\ mon.status.metric # None
        /\ out.raw[1] = DocumentedAlarm(mon.cls, mon.status.metric[1], mon.threshold)
        /\ ~IsFiltered(mon) => (mon.status.alarm = out.raw[1] /\ out.ret = out.raw)

\* a default monitor has just compared a metric equal to its threshold and
\* has not flagged it
MetricEqualToThresholdNotFlagged ==
    /\ out.op = "update"
    /\ out.raw = Some(FALSE)
    /\ mon.cls = "StationaryVelocityMonitor"
    /\ mon.status.metric = Some(Real(mon.threshold, 1, FALSE))

-----------------------------------------------------------------------------
(* Properties of the C/N0 monitors *)

\* the channels of a drop monitor that hold at least 2 samples
ExaminedChannels(self) == {i \in 1..Len(self.cnos) : BufLen(self.cnos[i].val) >= 2}

\* oldest - newest of channel i
ChannelDrop(self, i) ==
    self.cnos[i].val.sample_buffer[1]
        - self.cnos[i].val.sample_buffer[BufLen(self.cnos[i].val)]

AllChannelsDropped(self) ==
    /\ ExaminedChannels(self) # {}
    /\ \A i \in ExaminedChannels(self) : ChannelDrop(self, i) > self.threshold

\* what C25 says of the call that made before into r.mon
DropDecisionRule(before, r) ==
    /\ r.err = NoError
    /\ ExaminedChannels(r.mon) # {} =>
           /\ r.ret = Some(AllChannelsDropped(r.mon))
           /\ r.mon.status.metric = Some(AllChannelsDropped(r.mon))
           /\ r.mon.status.alarm = AllChannelsDropped(r.mon)
    /\ ExaminedChannels(r.mon) = {} =>
           /\ r.nometric
           /\ r.ret = None
           /\ r.mon.status = before.status

\* C25 as claimed: after every accepted message the C/N0 drop monitor decides
\* from the channels holding at least 2 retained samples, drop = oldest -
\* newest: alarm iff there is such a channel and every drop > threshold; no
\* metric and status unchanged when there is none; status.metric is the
\* boolean decision.
DropDecisionAfterEveryAcceptedMessage ==
    mon.cls = "CnoDropJammingMonitor" =>
        \A message \in MessagesFor(mon) :
            verify_message(mon, message) => DropDecisionRule(mon, update(mon, message))

\* C25 as amended: the same after every accepted message that carries an
\* svs list; an accepted message without one returns None and leaves the
\* channels and status as they were.
DropDecisionAfterSvsMessage ==
    mon.cls = "CnoDropJammingMonitor" =>
        \A message \in MessagesFor(mon) :
            verify_message(mon, message) =>
                IF "svs" \in message.has THEN DropDecisionRule(mon, update(mon, message))
                ELSE /\ update(mon, message).ret = None
                     /\ update(mon, message).mon.status = mon.status
                     /\ update(mon, message).mon.cnos = mon.cnos

\* a drop exactly equal to the threshold has just been decided: no alarm
DropEqualToThresholdNoAlarm ==
    /\ mon.cls = "CnoDropJammingMonitor"
    /\ out.op = "update"
    /\ out.ret = Some(FALSE)
    /\ ExaminedChannels(mon) # {}
    /\ \A i \in ExaminedChannels(mon) : ChannelDrop(mon, i) = mon.threshold

\* the cno of the last entry of svs on channel key, if any
RECURSIVE LastCnoOf(_, _)
LastCnoOf(svs, key) ==
    IF svs = <<>> THEN None
    ELSE IF ChannelId(svs[Len(svs)].gnssId, svs[Len(svs)].svid) = key
    THEN Some(svs[Len(svs)].cno)
    ELSE LastCnoOf(SubSeq(svs, 1, Len(svs) - 1), key)

ChannelKeys(self, message) ==
    {self.cnos[i].key : i \in 1..Len(self.cnos)}
        \cup {ChannelId(message.svs[i].gnssId, message.svs[i].svid) : i \in 1..Len(message.svs)}

\* the most recent (time, cno) of channel key once message is stored
MostRecent(self, message, key) ==
    IF LastCnoOf(message.svs, key) # None
    THEN Some([time |-> message.rxTime, cno |-> LastCnoOf(message.svs, key)[1]])
    ELSE DictGet(self.cnos, key)

ValidChannels(self, message) ==
    {key \in ChannelKeys(self, message) :
        /\ MostRecent(self, message, key) # None
        /\ message.rxTime - MostRecent(self, message, key)[1].time <= self.time_window}

MaxCno(self, message) ==
    CHOOSE c \in {MostRecent(self, message, key)[1].cno : key \in ValidChannels(self, message)} :
        \A key \in ValidChannels(self, message) : MostRecent(self, message, key)[1].cno <= c

\* what C26 says of the call that made before into r.mon
StalenessRule(before, message, r) ==
    /\ r.err = NoError
    /\ \A key \in ChannelKeys(before, message) :
           /\ DictHas(r.mon.cnos, key)
           /\ DictGet(r.mon.cnos, key) =
                  IF key \in ValidChannels(before, message)
                  THEN MostRecent(before, message, key) ELSE None
    /\ ValidChannels(before, message) # {} =>
           r.mon.status.metric = Some(Real(MaxCno(before, message), 1, FALSE))
    /\ ValidChannels(before, message) = {} => (r.nometric /\ r.ret = None)

AllUsable(svs) == \A i \in 1..Len(svs) : UsableSv(svs[i])

\* C26: after an accepted message at time t whose svs entries are all usable,
\* a C/N0 threshold monitor holds for each channel its most recent (time,
\* cno) if t minus that time is at most time_window and None otherwise, and
\* the metric is the maximum cno of the channels still valid; with no valid
\* channel update returns None.
MetricIsMaxOverFreshChannels ==
    mon.cls = "CnoThresholdJammingMonitor" =>
        \A message \in MessagesFor(mon) :
            (verify_message(mon, message) /\ "svs" \in message.has /\ AllUsable(message.svs)) =>
                StalenessRule(mon, message, update(mon, message))

-----------------------------------------------------------------------------
(* Properties of the factory *)

DefinedNames(modules) == {DefinedClasses(modules)[i][1] : i \in 1..Len(DefinedClasses(modules))}

\* modules: the modules loaded when from_config(name, c) was called
FromConfigResult(name, c, modules) ==
    IF name \in DefinedNames(modules) /\ init_error(name, c) = NoError
    THEN out.err = NoError /\ mon = Some(init_object(name, c))
    ELSE IF name \notin DefinedNames(modules)
    THEN out.err = NoError /\ mon = None
    ELSE TRUE

\* C30: from_config(name, configuration) returns a constructed instance of
\* the class called name whenever that class is defined as a child or a
\* grandchild of Monitor, whatever other subclasses exist and in whatever
\* order they were defined, and returns None without raising when no class
\* of that name exists.
FromConfigFindsEveryDefinedClass ==
    out.op = "from_config" => FromConfigResult(out.cls, out.config, out.before)

-----------------------------------------------------------------------------
(* Properties of last_event_time *)

\* the fields _calculate_metric of the class looks for
DataFields(self) ==
    CASE self.cls = "StationaryVelocityMonitor" -> {"ecef_velocity"}
      [] self.cls \in {"StationaryPositionMonitor", "DualAntennaDistanceMonitor"} -> {"ecef_position"}
      [] self.cls = "ClockRateMonitor" -> {"clock_rate"}
      [] self.cls = "CCDMonitor" -> {"clock_rate", "clock_bias"}
      [] self.cls \in {"CnoDropJammingMonitor", "CnoThresholdJammingMonitor"} -> {"svs"}

LacksDataField(self, message) == ~(DataFields(self) \subseteq message.has)

GapReached(self, message) ==
    /\ self.monitor_timeout # None
    /\ self.last_event_time # None
    /\ message.rxTime - self.last_event_time[1] >= self.monitor_timeout[1]

\* update(self, message) gave r
LastEventTimeRule(self, message, r) ==
    r.verified =>
        /\ r.mon.last_event_time = Some(message.rxTime)
        /\ r.reset <=> GapReached(self, message)
        /\ (LacksDataField(self, message) /\ r.err = NoError) =>
               /\ r.nometric
               /\ r.ret = None
               /\ self.cls # "DualAntennaDistanceMonitor" =>
                      r.mon = [(IF GapReached(self, message) THEN reset(self) ELSE self)
                                  EXCEPT !.last_event_time = Some(message.rxTime)]

\* C31: after update on a message that passes verify_message,
\* last_event_time is that message's rxTime whatever the metric outcome; a
\* verified message without the detector's data field yields no metric,
\* still advances last_event_time and still goes through the timeout
\* guard, which clears the accumulated history when the gap is reached.
VerifiedMessageSetsLastEventTime ==
    \A message \in MessagesFor(mon) : LastEventTimeRule(mon, message, update(mon, message))

\* a message without data field arrived after the timeout: the samples
\* gathered before are gone and last_event_time is the message's time
HistoryClearedByMessageWithoutData ==
    /\ out.op = "update"
    /\ out.verified
    /\ out.reset
    /\ out.nometric
    /\ mon.cls = "StationaryPositionMonitor"
    /\ mon.num_accepted = 0
    /\ mon.last_event_time = Some(2)
    /\ twin = None

-----------------------------------------------------------------------------
(* Properties of the CCD and clock-rate monitors under tuning *)

\* C32: in every reachable state of a CCDMonitor, bias_samples and
\* rate_integral hold the same number of entries with the same timestamps
\* (and the same window length), whatever was appended, evicted, re-windowed
\* through the min_delta_t setter or reset.
CcdBuffersInLockStep ==
    mon.cls = "CCDMonitor" =>
        /\ mon.bias_samples.time_buffer = mon.rate_integral.time_buffer
        /\ Len(mon.bias_samples.sample_buffer) = Len(mon.rate_integral.sample_buffer)
        /\ Len(mon.bias_samples.sample_buffer) = Len(mon.bias_samples.time_buffer)
        /\ mon.bias_samples.target_elapsed_time = mon.rate_integral.target_elapsed_time

\* the min_delta_t setter has just shortened both windows of a CCD monitor
\* and dropped entries from both buffers
CcdBuffersRewindowed ==
    /\ mon.cls = "CCDMonitor"
    /\ out.op = "set_min_delta_t"
    /\ out.err = NoError
    /\ mon.bias_samples.target_elapsed_time = Some(1)
    /\ mon.bias_samples.time_buffer = <<0, 2>>
    /\ mon.rate_integral.time_buffer = <<0, 2>>
    /\ mon.last_event_time = Some(2)

\* every sample of every tracked channel is at most time_window older than time
AllChannelsAged(self, time) ==
    \A i \in 1..Len(self.cnos) :
        \A k \in 1..BufLen(self.cnos[i].val) :
            self.cnos[i].val.time_buffer[k] >= time - self.time_window

\* update(self, message) gave r
AgingRule(message, r) ==
    (r.verified /\ "svs" \in message.has /\ r.err = NoError) =>
        AllChannelsAged(r.mon, message.rxTime)

\* C34: a C/N0 drop monitor ages every tracked channel on each update that
\* carries an sv list: afterwards no channel, sighted in the message or
\* not, retains a sample older than time_window relative to the message's
\* time, so a channel no longer sighted stops contributing its old drop.
UnsightedChannelsAreAged ==
    mon.cls = "CnoDropJammingMonitor" =>
        \A message \in MessagesFor(mon) : AgingRule(message, update(mon, message))

\* min_delta_t of a CCD or clock-rate monitor: the target of its buffers
min_delta_t(self) == TuneSamples(self).target_elapsed_time[1]

\* C37: min_delta_t <= max_delta_t holds in every reachable state of a
\* CCDMonitor and of a ClockRateMonitor, also after any sequence of
\* successful min_delta_t and max_delta_t setter calls.
MinDeltaTNeverAboveMax ==
    mon.cls \in {"CCDMonitor", "ClockRateMonitor"} => min_delta_t(mon) <= mon.max_delta_t

\* the least k >= 1 with k * d >= least
FirstMultiple(d, least) ==
    CHOOSE k \in 1..(least + 1) : k * d >= least /\ (k = 1 \/ (k - 1) * d < least)

YieldsMetric == out.op = "update" /\ out.err = NoError /\ out.ret # None

\* the monitor was fed n messages at spacing d
UniformRule(self, n, d) ==
    YieldsMetric <=> /\ FirstMultiple(d, min_delta_t(self)) * d <= self.max_delta_t
                     /\ n - 1 >= FirstMultiple(d, min_delta_t(self))

\* C38: a ClockRateMonitor fed valid clock_rate messages at a uniform
\* spacing d below its timeout yields a metric on message k + 1 and on
\* every later one, k * d being the first positive multiple of d that is
\* >= min_delta_t, provided k * d <= max_delta_t; if no multiple of d lies
\* in [min_delta_t, max_delta_t] it never yields a metric.
UniformFeedYieldsMetricIffMultipleFits ==
    /\ Len(hist) = 1 => ~YieldsMetric
    /\ Len(hist) >= 2 => UniformRule(mon, Len(hist), hist[2] - hist[1])

\* with min_delta_t = max_delta_t = 3 and spacing 1 the fifth message has
\* yielded a metric from the four samples kept
MetricOnEveryMessageOnceWindowFilled ==
    /\ YieldsMetric
    /\ Len(hist) = 5
    /\ hist[2] - hist[1] = 1
    /\ min_delta_t(mon) = 3
    /\ mon.max_delta_t = 3
    /\ BufLen(mon.samples) = 4

-----------------------------------------------------------------------------
(* Properties of the monitors' use of their buffers *)

\* the buffer a message with data is appended to, once the monitor has one
DataBuffers(self, message) ==
    CASE self.cls = "ClockRateMonitor" -> {self.samples}
      [] self.cls = "CCDMonitor" -> {self.bias_samples, self.rate_integral}
      [] self.cls = "DualAntennaDistanceMonitor" -> {SubMonitorFor(self, message).samples}
      [] OTHER -> {}

\* update(self, message) gave r
BufferUseRule(self, message, r) ==
    r.verified =>
        /\ r.err # "ValueError"
        /\ (r.err = NoError /\ ~LacksDataField(self, message)
                /\ (self.cls = "CCDMonitor" => ~r.reset /\ self.last_rate # None)) =>
               \A buffer \in DataBuffers(r.mon, message) : BufLen(buffer) >= 1

\* C35: for every monitor type and every message sequence with any numeric
\* rxTime, zero and negative included, processing a verified message never
\* raises a buffer usage error: no append is rejected as out of order
\* (ValueError), and the pops of the CCD, clock-rate and dual-antenna
\* monitors leave at least one sample.
NoBufferUsageError ==
    \A message \in SignedMessages(mon) : BufferUseRule(mon, message, update(mon, message))

-----------------------------------------------------------------------------
(* Properties of the clock-rate metric *)

\* C36: in every reachable state of a constructed ClockRateMonitor the
\* metric |newest - oldest| / elapsed_time is formed only when
\* elapsed_time > 0: no accepted configuration and message sequence makes
\* update divide by zero.
ClockRateNeverDividesByZero ==
    (mon.cls = "ClockRateMonitor" /\ out.op = "update") => out.err # "ZeroDivisionError"

-----------------------------------------------------------------------------
(* Properties of the detection window across a timeout *)

\* update(self, message) gave r after the timeout guard fired
AfterTimeoutRule(self, r) ==
    r.ret = Some(TRUE) => (r.raw = Some(TRUE) /\ self.min_detections <= 1)

\* C39: after a timeout-driven reset of a filtered monitor the filtered
\* alarm is true only once min_detections raw-flagged samples have been
\* processed since the reset, the message that triggered it included:
\* detections recorded before the timeout never count.  hist holds the raw
\* flags since the last reset.
DetectionsBeforeTimeoutNeverCount ==
    IsFiltered(mon) =>
        /\ mon.status.alarm => CountTrue(hist) >= mon.min_detections
        /\ \A message \in MessagesFor(mon) :
              (verify_message(mon, message) /\ TimeoutGuard(mon, message)) =>
                  AfterTimeoutRule(mon, update(mon, message))

\* a monitor in alarm on two detections is about to receive a flagged
\* sample after the timeout, and answers it with no alarm
AlarmLostAtTimeout ==
    /\ IsFiltered(mon)
    /\ mon.min_detections = 2
    /\ mon.status.alarm
    /\ mon.detections.sum = 2
    /\ \E message \in MessagesFor(mon) :
          /\ verify_message(mon, message)
          /\ TimeoutGuard(mon, message)
          /\ update(mon, message).raw = Some(TRUE)
          /\ update(mon, message).ret = Some(FALSE)
          /\ update(mon, message).mon.detections.sum = 1

-----------------------------------------------------------------------------
(* Properties of the timeout guard of a dual-antenna monitor's sub-monitors *)

\* the sub-monitor of the other receiver
OtherSubMonitor(self, message) ==
    IF message.receiver_id # self.rx2.receiver_id THEN self.rx2 ELSE self.rx1

\* the gap of the message's own receiver reaches the timeout while the
\* parent's gap does not
SubTimeoutOnly(self, message) ==
    /\ verify_message(self, message)
    /\ ~TimeoutGuard(self, message)
    /\ TimeoutGuard(SubMonitorFor(self, message), message)

\* update(self, message) gave r: the receiver's buffer restarts from the
\* message's sample, the other sub-monitor is as before, and the parent's
\* status and time of the last combined computation change only by a
\* combined computation on the message itself
SubTimeoutRule(self, message, r) ==
    /\ ~r.reset
    /\ SubMonitorFor(r.mon, message).samples.time_buffer
           = IF "ecef_position" \in message.has THEN <<message.rxTime>> ELSE <<>>
    /\ OtherSubMonitor(r.mon, message) = OtherSubMonitor(self, message)
    /\ IF r.nometric \/ r.err # NoError
       THEN /\ r.mon.status = self.status
            /\ r.mon.last_update = self.last_update
       ELSE /\ r.mon.last_update = NumTime(message.rxTime)
            /\ r.mon.status.metric
                   = Some(DualDistance(r.mon.rx1.samples, r.mon.rx2.samples))

\* C40: when the gap of one receiver reaches monitor_timeout while the other
\* receiver's messages kept the parent's last_event_time fresh, the reset is
\* that sub-monitor's alone: only its sample buffer is cleared; the other
\* receiver's buffer, the parent's status and the time of the last combined
\* computation are not touched by it.
SubMonitorTimeoutClearsOnlyItsBuffer ==
    mon.cls = "DualAntennaDistanceMonitor" =>
        \A message \in MessagesFor(mon) :
            SubTimeoutOnly(mon, message) =>
                SubTimeoutRule(mon, message, update(mon, message))

\* receiver 1 was heard at time 0 and receiver 2 at time 1, a combined metric
\* is on record, and receiver 1's position at time 2, inside the window of
\* two seconds, finds its sub-monitor's gap equal to the timeout
SubMonitorTimedOutAlone ==
    /\ mon.cls = "DualAntennaDistanceMonitor"
    /\ mon.monitor_timeout = Some(2)
    /\ mon.min_samples = 1
    /\ mon.status.metric # None
    /\ mon.last_update = NumTime(1)
    /\ mon.rx1.samples.target_elapsed_time = Some(2)
    /\ mon.rx1.samples.time_buffer = <<0>>
    /\ mon.rx2.samples.time_buffer = <<1>>
    /\ mon.last_event_time = Some(1)
    /\ \E message \in MessagesFor(mon) :
          /\ message.receiver_id = mon.rx1.receiver_id
          /\ "ecef_position" \in message.has
          /\ message.rxTime = 2
          /\ SubTimeoutOnly(mon, message)
          /\ update(mon, message).mon.rx1.samples.time_buffer = <<2>>
          /\ update(mon, message).mon.rx2.samples.time_buffer = <<1>>
          /\ update(mon, message).mon.status = mon.status
          /\ update(mon, message).mon.last_update = mon.last_update

=============================================================================
